---- MODULE Spec2Model ----
(***************************************************************************)
(* Model of the tree-struct crate: a mutable ordered tree whose nodes own  *)
(* their children and keep a back-reference to their parent.               *)
(*                                                                         *)
(* Two variants of the crate are modelled over one heap:                   *)
(*   "box" : src/src/lib.rs + src/src/node.rs  (Pin<Box<BaseNode>>, raw    *)
(*           NonNull parent pointers, NodeRef = NonNull pointer)           *)
(*   "rc"  : src/src/rc/mod.rs + src/src/rc/node.rs (Pin<Rc<RwLock<..>>>,  *)
(*           Weak parent pointers, shared Node handles)                    *)
(* A behaviour runs one variant, chosen in Init.                           *)
(*                                                                         *)
(* Node identities are the addresses of the node records; an address is    *)
(* never handed out twice (see Fresh).                                     *)
(***************************************************************************)
EXTENDS Integers, Sequences, FiniteSets, TLC

\* ------------------------------------------------------------------ bounds
\* Number of node records ever allocated in one behaviour that mutates trees.
MaxNodes == 4

\* Number of node records ever allocated in one behaviour that reads, clones
\* and traverses trees; the size of the heap.
MaxHeap == 6

Nodes == 1..MaxHeap

\* rc: number of Node handles the caller holds at one time.
MaxHandles == 1

\* Option::None of a parent reference / of an index argument.
NoNode == 0

Contents == {"x", "y"}
NoContent == ""

\* Number of threads that share handles (feature arc).
MaxThreads == 2

Threads == 1..MaxThreads
NoThread == 0

Variants == {"box", "rc"}

\* ------------------------------------------------------------------ state
VARIABLES
    variant,    \* which variant of the crate this behaviour runs
    content,    \* content[n]  : BaseNode::content / InnerNode::content
    parent,     \* parent[n]   : the parent field (NoNode = None)
    children,   \* children[n] : the children Vec, in order
    alloc,      \* node records currently allocated (not dropped)
    next,       \* number of node records allocated so far
    trees,      \* roots of the Tree values the caller holds
    views,      \* box: <<t, n>> : a Pin<&mut BaseNode> to n borrowed from Tree t is held
    handles,    \* rc : nodes the caller holds a Node<T> handle to;
                \* box: BaseNode values the caller owns outside any Tree (results of Clone)
    budget,     \* number of node records this behaviour allocates at most
    snap,       \* history: the node last detached and the heap just before that detach
    iter,       \* the IterBFS / IterDFS value the caller holds, if any
    track,      \* whether this behaviour keeps the history below
    severed,    \* history: <<t, x>> : x left Tree t in a detached subtree and has not come back
    last,       \* the last operation called, its arguments and its result
    lock,       \* arc: lock[n] : the RwLock of node n: its writer, and the read guards per thread
    thread      \* arc: thread[t] : the call thread t is in, and the statement it is at

vars == <<variant, content, parent, children, alloc, next, trees, views, handles,
          budget, snap, iter, track, severed, last, lock, thread>>

\* ------------------------------------------------------------------ helpers
Range(s) == {s[i] : i \in 1..Len(s)}

Occurrences(s, x) == Cardinality({i \in 1..Len(s) : s[i] = x})

\* s without its element at 0-based index i (Vec::remove).
RemoveAt(s, i) == [k \in 1..(Len(s) - 1) |-> IF k <= i THEN s[k] ELSE s[k + 1]]

\* s with x put at 0-based index i, later elements shifted right (Vec::insert).
InsertAt(s, i, x) ==
    [k \in 1..(Len(s) + 1) |-> IF k <= i THEN s[k] ELSE IF k = i + 1 THEN x ELSE s[k - 1]]

\* 0-based index of the first occurrence of x in s (Iterator::position); Len(s) if none.
RECURSIVE position_from(_, _, _)
position_from(s, x, i) ==
    IF i >= Len(s) THEN Len(s)
    ELSE IF s[i + 1] = x THEN i
    ELSE position_from(s, x, i + 1)

position(s, x) == position_from(s, x, 0)

\* Nodes reachable from the set S through children lists ch (S included).
RECURSIVE Reach(_, _)
Reach(ch, S) ==
    LET S2 == S \cup UNION {Range(ch[m]) : m \in S}
    IN IF S2 = S THEN S ELSE Reach(ch, S2)

Subtree(n) == Reach(children, {n})

Op(o, r, a, i, res, st) ==
    [op |-> o, recv |-> r, arg |-> a, idx |-> i, res |-> res, stale |-> st]

\* No detach recorded; `on` tells whether the behaviour records detaches.
NoSnap(on) ==
    [on |-> on, node |-> NoNode, from |-> NoNode,
     content |-> [n \in Nodes |-> NoContent], children |-> [n \in Nodes |-> <<>>]]

\* History bookkeeping: node d is about to be detached from its parent p.
Snapshot(d, p) ==
    IF snap.on
    THEN [on |-> TRUE, node |-> d, from |-> p, content |-> content, children |-> children]
    ELSE snap

\* A RwLock nobody holds.
Unlocked == [w |-> NoThread, r |-> [t \in Threads |-> 0]]

\* A thread that is in no call.
Idle == [pc |-> "idle", self |-> NoNode, arg |-> NoNode, idx |-> 0]

\* The caller holds no iterator.
NoIter == [kind |-> "none", start |-> NoNode, queue |-> <<>>, out |-> <<>>, done |-> FALSE]

\* The process is still running: no operation has aborted it.
Running == last.res # "abort"

\* A never-used address exists for k more node records.
Fresh(k) == next + k <= budget

\* ------------------------------------------------------------------ builder
Leaf(c) == [content |-> c, children |-> <<>>]

Bld(c, cs) == [content |-> c, children |-> cs]

\* The builder specifications the caller passes to NodeBuilder::build.
Builders ==
    { Bld("x", <<Leaf("x"), Leaf("y")>>),
      Bld("x", <<Bld("y", <<Leaf("x")>>), Leaf("y")>>) }

\* Number of node records a builder specification asks for.
RECURSIVE BuildersSize(_)
BuildersSize(bs) ==
    IF bs = <<>> THEN 0
    ELSE 1 + BuildersSize(Head(bs).children) + BuildersSize(Tail(bs))

BuilderSize(b) == 1 + BuildersSize(b.children)

Heap == [content |-> content, parent |-> parent, children |-> children, next |-> next]

\* A new node record at the next fresh address.
new_node(h, c, p) ==
    LET id == h.next + 1
    IN [h EXCEPT !.next = id, !.content[id] = c, !.parent[id] = p, !.children[id] = <<>>]

\* NodeBuilder::build_children: each child is created with its parent
\* reference, then its own children, then collected in declared order.
RECURSIVE build_children(_, _, _)
build_children(h, p, bs) ==
    IF bs = <<>> THEN h
    ELSE LET h1 == new_node(h, Head(bs).content, p)
             id == h1.next
             h2 == build_children(h1, id, Head(bs).children)
             h3 == [h2 EXCEPT !.children[p] = Append(@, id)]
         IN build_children(h3, p, Tail(bs))

\* Fault seeded for C24: the children of the root are built last to first.
build_reversed(h, b) ==
    LET h1 == new_node(h, b.content, NoNode)
        cs == b.children
    IN build_children(h1, h1.next, [k \in 1..Len(cs) |-> cs[Len(cs) + 1 - k]])

\* NodeBuilder::build: the root has parent None.
build(h, b) ==
    LET h1 == new_node(h, b.content, NoNode)
    IN build_children(h1, h1.next, b.children)

\* ------------------------------------------------------------------ clone
\* BaseNode::clone_children_deep: every child is cloned (content only), given
\* the clone of its parent as parent, then its own children are cloned.
RECURSIVE clone_children_deep(_, _, _)
clone_children_deep(h, p, cs) ==
    IF cs = <<>> THEN h
    ELSE LET h1 == new_node(h, content[Head(cs)], p)
             id == h1.next
             h2 == clone_children_deep(h1, id, children[Head(cs)])
             h3 == [h2 EXCEPT !.children[p] = Append(@, id)]
         IN clone_children_deep(h3, p, Tail(cs))

\* Fault seeded for C22: the clone takes the children of n along.
clone_sharing_children(h, n) ==
    LET id == h.next + 1
    IN [h EXCEPT !.next = id, !.content[id] = content[n], !.parent[id] = NoNode,
                 !.children[id] = children[n]]

\* impl Clone for BaseNode / Node: the content is copied; no parent, no children.
clone(h, n) == new_node(h, content[n], NoNode)

\* Fault seeded for C20: the clone of n keeps the parent of n.
clone_keeping_parent(h, n) ==
    LET h1 == new_node(h, content[n], parent[n])
    IN clone_children_deep(h1, h1.next, children[n])

\* Fault seeded for C21: only the record of n is copied; the copy lists the
\* children of n themselves.
clone_deep_aliasing(h, n) ==
    LET h1 == new_node(h, content[n], NoNode)
    IN [h1 EXCEPT !.children[h1.next] = children[n]]

\* BaseNode::clone_deep: the clone of n has parent None.
clone_deep(h, n) ==
    LET h1 == new_node(h, content[n], NoNode)
    IN clone_children_deep(h1, h1.next, children[n])

\* ------------------------------------------------------------------ descendant check
\* The while-let loop of is_descendant: walk `ancestor` up the parent chain.
RECURSIVE walk_up(_, _)
walk_up(this, ancestor) ==
    IF ancestor = NoNode THEN FALSE
    ELSE IF ancestor = this THEN TRUE
    ELSE walk_up(this, parent[ancestor])

\* Fault seeded for C4: a check that only asks whether other has a parent.
has_some_parent(this, other) == parent[other] # NoNode

\* Fault seeded for C30: only the direct parent of other is looked at.
is_child(this, other) == parent[other] = this

\* is_descendant(this, other): other is not this, and this is found on
\* other's parent chain.
is_descendant(this, other) ==
    IF this = other THEN FALSE ELSE walk_up(this, parent[other])

\* Fault seeded for C8: a check that only rules out the root itself.
is_not_root(this, other) == this # other

\* Fault seeded for C27: the root of the Tree is accepted as well.
is_in_tree(this, other) == this = other \/ is_descendant(this, other)

\* Tree::borrow_descendant: the condition under which a view is returned.
borrow_check(this, other) == is_descendant(this, other)

\* ------------------------------------------------------------------ mutation primitives
\* append_child / insert_child, first statement: child.root.parent = Some(this).
set_parent(this, child) == [parent EXCEPT ![child] = this]

\* append_child, second statement: this.children.push(child.root).
push_child(this, child) == [children EXCEPT ![this] = Append(@, child)]

\* Fault seeded for C11: the child is put at the end, whatever the index.
insert_at_end(this, child, index) == push_child(this, child)

\* Fault seeded for C39: the child is put in front, whatever the index.
insert_at_front(this, child, index) == [children EXCEPT ![this] = <<child>> \o @]

\* insert_child, second statement: this.children.insert(index, child.root).
insert_at(this, child, index) == [children EXCEPT ![this] = InsertAt(@, index, child)]

\* Fault seeded for C12: an index beyond the end is clamped to the end.
insert_clamped(this, child, index) == push_child(this, child)

\* insert_child, second statement with index > len: Vec::insert fails its
\* bounds assertion before it moves any element.
insert_rejected(this, child, index) == children

\* Fault seeded for C5: the index of the first child, whatever the node.
first_index(p, d) == 0

\* detach: index of the node in its parent's children, found by identity.
detach_index(p, d) == position(children[p], d)

\* Fault seeded for C28: Vec::swap_remove, the last child takes the place of
\* the removed one.
swap_remove_child(p, index) ==
    LET cs == children[p]
        n == Len(cs)
    IN [children EXCEPT ![p] =
          [k \in 1..(n - 1) |-> IF k = index + 1 THEN cs[n] ELSE cs[k]]]

\* detach: parent.children.remove(index).
remove_child(p, index) == [children EXCEPT ![p] = RemoveAt(@, index)]

\* Fault seeded for C3: the parent reference is left as it was.
keep_parent(pa, d) == pa

\* detach: root.parent = None.
clear_parent(pa, d) == [pa EXCEPT ![d] = NoNode]

\* Dropping the node records S: their memory is released.
Free(f, S, v) == [n \in Nodes |-> IF n \in S THEN v ELSE f[n]]

\* ------------------------------------------------------------------ box variant
Box == variant = "box" /\ Running

\* Tree t is mutably borrowed: a view obtained from it is still held.
Borrowed(t) == \E p \in views : p[1] = t

\* Every NodeRef the caller can hold: a pointer to any node record ever made.
NodeRefs == 1..next

\* NodeBuilder::build (src/src/node.rs).
BoxBuild(b) ==
    /\ Box
    /\ Fresh(BuilderSize(b))
    /\ LET h == build(Heap, b)
       IN /\ content' = h.content
          /\ parent' = h.parent
          /\ children' = h.children
          /\ next' = h.next
          /\ alloc' = alloc \cup ((next + 1)..h.next)
          /\ trees' = trees \cup {next + 1}
          /\ last' = Op("build", NoNode, next + 1, 0, "some", FALSE)
    /\ UNCHANGED <<lock, thread, variant, track, budget, snap, iter, views, handles, severed>>

\* BaseNode::clone_deep on any node the caller can read.
BoxCloneDeep(n) ==
    /\ Box
    /\ n \in alloc
    /\ Fresh(Cardinality(Subtree(n)))
    /\ LET h == clone_deep(Heap, n)
       IN /\ content' = h.content
          /\ parent' = h.parent
          /\ children' = h.children
          /\ next' = h.next
          /\ alloc' = alloc \cup ((next + 1)..h.next)
          /\ trees' = trees \cup {next + 1}
          /\ last' = Op("clone_deep", n, next + 1, 0, "some", FALSE)
    /\ UNCHANGED <<lock, thread, variant, track, budget, snap, iter, views, handles, severed>>

\* BaseNode::clone(&self) on any node the caller can read: the caller owns the
\* returned BaseNode value.
BoxClone(n) ==
    /\ Box
    /\ n \in alloc
    /\ \A q \in views : n \notin Subtree(q[1])
    /\ Fresh(1)
    /\ Cardinality(handles) < MaxHandles
    /\ LET h == clone(Heap, n)
       IN /\ content' = h.content
          /\ parent' = h.parent
          /\ children' = h.children
          /\ next' = h.next
          /\ alloc' = alloc \cup {h.next}
          /\ handles' = handles \cup {h.next}
          /\ last' = Op("clone", n, h.next, 0, "some", FALSE)
    /\ UNCHANGED <<lock, thread, variant, track, budget, snap, iter, trees, views, severed>>

\* A write to the pub field `content` through a mutable view.
SetContent(p, c) ==
    /\ Box
    /\ p \in views
    /\ p[2] \in alloc
    /\ content' = [content EXCEPT ![p[2]] = c]
    /\ last' = Op("set_content", p[2], NoNode, 0, "ok", FALSE)
    /\ UNCHANGED <<lock, thread, variant, track, budget, snap, iter, parent, children, alloc, next, trees, views, handles, severed>>

\* Tree::root_mut(&mut self): the exclusive borrow of the Tree.
RootMut(t) ==
    /\ Box
    /\ t \in trees
    /\ ~Borrowed(t)
    /\ views' = views \cup {<<t, t>>}
    /\ last' = Op("root_mut", t, t, 0, "some", FALSE)
    /\ UNCHANGED <<lock, thread, variant, track, budget, snap, iter, content, parent, children, alloc, next, trees, handles, severed>>

\* Tree::borrow_descendant(&mut self, descendant) with a pointer to a live node.
BorrowDescendant(t, d) ==
    /\ Box
    /\ t \in trees
    /\ ~Borrowed(t)
    /\ d \in NodeRefs \cap alloc
    /\ IF borrow_check(t, d)
       THEN /\ views' = views \cup {<<t, d>>}
            /\ last' = Op("borrow_descendant", t, d, 0, "some", FALSE)
       ELSE /\ views' = views
            /\ last' = Op("borrow_descendant", t, d, 0, "none", FALSE)
    /\ UNCHANGED <<lock, thread, variant, track, budget, snap, iter, content, parent, children, alloc, next, trees, handles, severed>>

\* Tree::borrow_descendant with a dangling pointer: is_descendant reads the
\* parent field of released memory (other.as_ref().parent()).  The read is
\* undefined behaviour; the call may return None, return a view of the
\* released record, or abort the process.
BorrowDescendantDangling(t, d) ==
    /\ Box
    /\ t \in trees
    /\ ~Borrowed(t)
    /\ d \in NodeRefs \ alloc
    /\ \/ /\ views' = views
          /\ last' = Op("borrow_descendant", t, d, 0, "none", TRUE)
       \/ /\ views' = views \cup {<<t, d>>}
          /\ last' = Op("borrow_descendant", t, d, 0, "some", TRUE)
       \/ /\ views' = views
          /\ last' = Op("borrow_descendant", t, d, 0, "abort", TRUE)
    /\ UNCHANGED <<lock, thread, variant, track, budget, snap, iter, content, parent, children, alloc, next, trees, handles, severed>>

\* BaseNode::children_mut(&mut self) -> Box<[Pin<&mut Self>]>: the view of v
\* is reborrowed into one mutable view per child, all held at once.
ChildrenMut(p) ==
    /\ Box
    /\ p \in views
    /\ p[2] \in alloc
    /\ views' = (views \ {p}) \cup {<<p[1], c>> : c \in Range(children[p[2]])}
    /\ last' = Op("children_mut", p[2], NoNode, 0, "some", FALSE)
    /\ UNCHANGED <<lock, thread, variant, track, budget, snap, iter, content, parent, children, alloc, next, trees, handles, severed>>

\* The caller lets go of a view.
ReleaseView(p) ==
    /\ Box
    /\ p \in views
    /\ views' = views \ {p}
    /\ last' = Op("release", p[2], NoNode, 0, "ok", FALSE)
    /\ UNCHANGED <<lock, thread, variant, track, budget, snap, iter, content, parent, children, alloc, next, trees, handles, severed>>

\* History bookkeeping: Tree c was grafted into Tree t.
Rejoined(t, c) ==
    {q \in severed : q[1] # c /\ ~(q[1] = t /\ q[2] \in Subtree(c))}

\* History bookkeeping: the subtree under root was detached from Tree t.
Severed(t, root) ==
    IF track THEN severed \cup {<<t, x>> : x \in Subtree(root)} ELSE severed

\* BaseNode::append_child(self: Pin<&mut Self>, child: Tree<T>).  The child is
\* moved in, so it is a Tree the caller holds and has not borrowed.
AppendChild(p, c) ==
    /\ Box
    /\ p \in views
    /\ p[2] \in alloc
    /\ c \in trees
    /\ ~Borrowed(c)
    /\ parent' = set_parent(p[2], c)
    /\ children' = push_child(p[2], c)
    /\ trees' = trees \ {c}
    /\ severed' = Rejoined(p[1], c)
    /\ last' = Op("append_child", p[2], c, 0, "ok", FALSE)
    /\ UNCHANGED <<lock, thread, variant, track, budget, snap, iter, content, alloc, next, views, handles>>

\* BaseNode::insert_child(self: Pin<&mut Self>, child: Tree<T>, index) with
\* index <= len.
InsertChild(p, c, index) ==
    /\ Box
    /\ p \in views
    /\ p[2] \in alloc
    /\ c \in trees
    /\ ~Borrowed(c)
    /\ index \in 0..Len(children[p[2]])
    /\ parent' = set_parent(p[2], c)
    /\ children' = insert_at(p[2], c, index)
    /\ trees' = trees \ {c}
    /\ severed' = Rejoined(p[1], c)
    /\ last' = Op("insert_child", p[2], c, index, "ok", FALSE)
    /\ UNCHANGED <<lock, thread, variant, track, budget, snap, iter, content, alloc, next, views, handles>>

\* insert_child with index > len: Vec::insert panics after the child's parent
\* reference was set; unwinding drops the child Tree that was moved in.
InsertChildPanic(p, c, index) ==
    /\ Box
    /\ p \in views
    /\ p[2] \in alloc
    /\ c \in trees
    /\ ~Borrowed(c)
    /\ index = Len(children[p[2]]) + 1
    /\ alloc' = alloc \ Subtree(c)
    /\ parent' = Free(parent, Subtree(c), NoNode)
    /\ children' = Free(insert_rejected(p[2], c, index), Subtree(c), <<>>)
    /\ content' = Free(content, Subtree(c), NoContent)
    /\ trees' = trees \ {c}
    /\ severed' = {q \in severed : q[1] # c}
    /\ last' = Op("insert_child", p[2], c, index, "panic", FALSE)
    /\ UNCHANGED <<lock, thread, variant, track, budget, snap, iter, next, views, handles>>

\* A write through a view of released memory (a view handed out by
\* BorrowDescendantDangling): undefined behaviour, the process is lost.
UseDanglingView(p) ==
    /\ Box
    /\ p \in views
    /\ p[2] \notin alloc
    /\ last' = Op("append_child", p[2], NoNode, 0, "abort", TRUE)
    /\ UNCHANGED <<lock, thread, variant, track, budget, snap, iter, content, parent, children, alloc, next, trees, views, handles, severed>>

\* Tree::detach_descendant(&mut self, descendant) with a pointer to a live node.
DetachDescendant(t, d) ==
    /\ Box
    /\ t \in trees
    /\ ~Borrowed(t)
    /\ d \in NodeRefs \cap alloc
    /\ IF ~is_descendant(t, d)
       THEN /\ last' = Op("detach_descendant", t, d, 0, "none", FALSE)
            /\ UNCHANGED <<parent, children, trees, severed, snap>>
       ELSE LET p == parent[d]
                index == detach_index(p, d)
            IN IF index >= Len(children[p])
               THEN \* .expect("Node is not found in its parent")
                    /\ last' = Op("detach_descendant", t, d, 0, "panic", FALSE)
                    /\ UNCHANGED <<parent, children, trees, severed, snap>>
               ELSE LET root == children[p][index + 1]
                    IN /\ children' = remove_child(p, index)
                       /\ parent' = clear_parent(parent, root)
                       /\ trees' = trees \cup {root}
                       /\ severed' = Severed(t, root)
                       /\ snap' = Snapshot(root, p)
                       /\ last' = Op("detach_descendant", t, d, index, "some", FALSE)
    /\ UNCHANGED <<lock, thread, variant, track, budget, iter, content, alloc, next, views, handles>>

\* Tree::detach_descendant with a dangling pointer: is_descendant reads
\* released memory.  Undefined behaviour: the call may return None or abort.
DetachDescendantDangling(t, d) ==
    /\ Box
    /\ t \in trees
    /\ ~Borrowed(t)
    /\ d \in NodeRefs \ alloc
    /\ \/ last' = Op("detach_descendant", t, d, 0, "none", TRUE)
       \/ last' = Op("detach_descendant", t, d, 0, "abort", TRUE)
    /\ UNCHANGED <<lock, thread, variant, track, budget, snap, iter, content, parent, children, alloc, next, trees, views, handles, severed>>

\* A Tree goes out of scope: its node records are released.
DropTree(t) ==
    /\ Box
    /\ t \in trees
    /\ ~Borrowed(t)
    /\ alloc' = alloc \ Subtree(t)
    /\ parent' = Free(parent, Subtree(t), NoNode)
    /\ children' = Free(children, Subtree(t), <<>>)
    /\ content' = Free(content, Subtree(t), NoContent)
    /\ trees' = trees \ {t}
    /\ severed' = {q \in severed : q[1] # t}
    /\ last' = Op("drop", t, NoNode, 0, "ok", FALSE)
    /\ UNCHANGED <<lock, thread, variant, track, budget, snap, iter, next, views, handles>>

NextBox ==
    \/ \E b \in Builders : BoxBuild(b)
    \/ \E n \in Nodes : BoxCloneDeep(n)
    \/ \E t \in Nodes : RootMut(t)
    \/ \E t, d \in Nodes : BorrowDescendant(t, d)
    \/ \E t, d \in Nodes : BorrowDescendantDangling(t, d)
    \/ \E p \in views : ChildrenMut(p)
    \/ \E p \in views : ReleaseView(p)
    \/ \E p \in views, c \in Nodes : AppendChild(p, c)
    \/ \E p \in views, c \in Nodes, i \in 0..MaxNodes : InsertChild(p, c, i)
    \/ \E p \in views, c \in Nodes, i \in 0..MaxNodes : InsertChildPanic(p, c, i)
    \/ \E p \in views : UseDanglingView(p)
    \/ \E t, d \in Nodes : DetachDescendant(t, d)
    \/ \E t, d \in Nodes : DetachDescendantDangling(t, d)
    \/ \E t \in Nodes : DropTree(t)

\* ------------------------------------------------------------------ rc variant
RcV == variant = "rc" /\ Running

\* The caller can take one more handle.
HandleRoom == Cardinality(handles) < MaxHandles

\* Fault seeded for C38: the parent reference is followed without the upgrade.
parent_unchecked(n) == parent[n]

\* Node::parent(): Weak::upgrade of the parent field; None once the parent
\* record has been dropped.
rc_parent(n) == IF parent[n] \in alloc THEN parent[n] ELSE NoNode

\* Reference counting: a record whose strong count reaches zero is dropped,
\* which drops its children Vec and so releases one count of each child.
\* `held` are the records the caller keeps alive (handles and Tree roots).
RECURSIVE collect(_, _, _)
collect(al, held, ch) ==
    LET dead == {n \in al : n \notin held /\ \A m \in al : n \notin Range(ch[m])}
    IN IF dead = {} THEN al ELSE collect(al \ dead, held, ch)

\* NodeBuilder::build (src/src/rc/node.rs).
RcBuild(b) ==
    /\ RcV
    /\ Fresh(BuilderSize(b))
    /\ LET h == build(Heap, b)
       IN /\ content' = h.content
          /\ parent' = h.parent
          /\ children' = h.children
          /\ next' = h.next
          /\ alloc' = alloc \cup ((next + 1)..h.next)
          /\ trees' = trees \cup {next + 1}
          /\ last' = Op("build", NoNode, next + 1, 0, "some", FALSE)
    /\ UNCHANGED <<lock, thread, variant, track, budget, snap, iter, views, handles, severed>>

\* Some node under n is its own descendant.
CyclicUnder(n) == \E c \in Subtree(n) : c \in Reach(children, Range(children[c]))

\* Node::clone_deep on a handle, or Tree::clone.
RcCloneDeep(n) ==
    /\ RcV
    /\ n \in handles \cup trees
    /\ ~CyclicUnder(n)
    /\ Fresh(Cardinality(Subtree(n)))
    /\ LET h == clone_deep(Heap, n)
       IN /\ content' = h.content
          /\ parent' = h.parent
          /\ children' = h.children
          /\ next' = h.next
          /\ alloc' = alloc \cup ((next + 1)..h.next)
          /\ trees' = trees \cup {next + 1}
          /\ last' = Op("clone_deep", n, next + 1, 0, "some", FALSE)
    /\ UNCHANGED <<lock, thread, variant, track, budget, snap, iter, views, handles, severed>>

\* Node::clone_deep below a node that is its own descendant: the recursion of
\* clone_children_deep never ends and the stack overflows.
RcCloneDeepOverflow(n) ==
    /\ RcV
    /\ n \in handles \cup trees
    /\ CyclicUnder(n)
    /\ last' = Op("clone_deep", n, NoNode, 0, "abort", FALSE)
    /\ UNCHANGED <<lock, thread, variant, track, budget, snap, iter, content, parent, children, alloc, next, trees, views, handles, severed>>

\* Tree::root(): a new handle to the root.
RcRoot(t) ==
    /\ RcV
    /\ t \in trees
    /\ t \notin handles
    /\ HandleRoom
    /\ handles' = handles \cup {t}
    /\ last' = Op("root", t, t, 0, "some", FALSE)
    /\ UNCHANGED <<lock, thread, variant, track, budget, snap, iter, content, parent, children, alloc, next, trees, views, severed>>

\* The state after the caller's references changed to handles hs and Trees
\* ts, with parent fields pa and children lists ch: records nobody counts are dropped.
RcSettle(hs, ts, pa, ch) ==
    LET al == collect(alloc, hs \cup ts, ch)
        gone == alloc \ al
    IN /\ alloc' = al
       /\ handles' = hs
       /\ trees' = ts
       /\ parent' = Free(pa, gone, NoNode)
       /\ children' = Free(ch, gone, <<>>)
       /\ content' = Free(content, gone, NoContent)

\* The caller's handles after a call on handle h returned handle r: the
\* result is kept beside h, or assigned over h (which drops h).
Kept(h, r, keep) == IF keep THEN handles \cup {r} ELSE (handles \ {h}) \cup {r}

\* Node::children(): the caller takes the handle to the child at index i.
RcChildren(h, i, keep) ==
    /\ RcV
    /\ h \in handles
    /\ i \in 1..Len(children[h])
    /\ Cardinality(Kept(h, children[h][i], keep)) <= MaxHandles
    /\ RcSettle(Kept(h, children[h][i], keep), trees, parent, children)
    /\ last' = Op("children", h, children[h][i], i - 1, "some", FALSE)
    /\ UNCHANGED <<lock, thread, variant, track, budget, snap, iter, next, views, severed>>

\* Node::parent().
RcParent(h, keep) ==
    /\ RcV
    /\ h \in handles
    /\ IF rc_parent(h) = NoNode
       THEN /\ keep
            /\ last' = Op("parent", h, NoNode, 0, "none", FALSE)
            /\ UNCHANGED <<content, parent, children, alloc, trees, handles>>
       ELSE /\ Cardinality(Kept(h, rc_parent(h), keep)) <= MaxHandles
            /\ RcSettle(Kept(h, rc_parent(h), keep), trees, parent, children)
            /\ last' = Op("parent", h, rc_parent(h), 0, "some", FALSE)
    /\ UNCHANGED <<lock, thread, variant, track, budget, snap, iter, next, views, severed>>

\* Node::clone(&self): a handle to a new record; the caller keeps it beside
\* the handle it called on, or assigns it over that handle.
RcClone(n, keep) ==
    /\ RcV
    /\ n \in handles \cup trees
    /\ Fresh(1)
    /\ LET h == clone(Heap, n)
           hs == Kept(n, h.next, keep)
           al == collect(alloc \cup {h.next}, hs \cup trees, h.children)
           gone == (alloc \cup {h.next}) \ al
       IN /\ Cardinality(hs) <= MaxHandles
          /\ next' = h.next
          /\ alloc' = al
          /\ handles' = hs
          /\ parent' = Free(h.parent, gone, NoNode)
          /\ children' = Free(h.children, gone, <<>>)
          /\ content' = Free(h.content, gone, NoContent)
          /\ last' = Op("clone", n, h.next, 0, "some", FALSE)
    /\ UNCHANGED <<lock, thread, variant, track, budget, snap, iter, trees, views, severed>>

\* *node.content_mut() = c: the content is written under the write guard,
\* which is released at the end of the statement.
RcSetContent(h, c) ==
    /\ RcV
    /\ h \in handles \cup trees
    /\ content' = [content EXCEPT ![h] = c]
    /\ last' = Op("set_content", h, NoNode, 0, "ok", FALSE)
    /\ UNCHANGED <<lock, thread, variant, track, budget, snap, iter, parent, children, alloc, next, trees, views, handles, severed>>

\* A handle goes out of scope.
RcDropHandle(h) ==
    /\ RcV
    /\ h \in handles
    /\ RcSettle(handles \ {h}, trees, parent, children)
    /\ last' = Op("drop_handle", h, NoNode, 0, "ok", FALSE)
    /\ UNCHANGED <<lock, thread, variant, track, budget, snap, iter, next, views, severed>>

\* A Tree goes out of scope.
RcDropTree(t) ==
    /\ RcV
    /\ t \in trees
    /\ RcSettle(handles, trees \ {t}, parent, children)
    /\ last' = Op("drop", t, NoNode, 0, "ok", FALSE)
    /\ UNCHANGED <<lock, thread, variant, track, budget, snap, iter, next, views, severed>>

\* Node::append_child(&self, child: Tree<T>): the receiver is any handle.
RcAppendChild(h, c) ==
    /\ RcV
    /\ h \in handles
    /\ c \in trees
    /\ parent' = set_parent(h, c)
    /\ children' = push_child(h, c)
    /\ trees' = trees \ {c}
    /\ last' = Op("append_child", h, c, 0, "ok", FALSE)
    /\ UNCHANGED <<lock, thread, variant, track, budget, snap, iter, content, alloc, next, views, handles, severed>>

\* Node::insert_child(&self, child: Tree<T>, index) with index <= len.
RcInsertChild(h, c, index) ==
    /\ RcV
    /\ h \in handles
    /\ c \in trees
    /\ index \in 0..Len(children[h])
    /\ parent' = set_parent(h, c)
    /\ children' = insert_at(h, c, index)
    /\ trees' = trees \ {c}
    /\ last' = Op("insert_child", h, c, index, "ok", FALSE)
    /\ UNCHANGED <<lock, thread, variant, track, budget, snap, iter, content, alloc, next, views, handles, severed>>

\* Node::insert_child with index > len: the child's parent reference is set,
\* then Vec::insert panics; unwinding drops the child Tree's count of its root.
RcInsertChildPanic(h, c, index) ==
    /\ RcV
    /\ h \in handles
    /\ c \in trees
    /\ index = Len(children[h]) + 1
    /\ RcSettle(handles, trees \ {c}, set_parent(h, c), insert_rejected(h, c, index))
    /\ last' = Op("insert_child", h, c, index, "panic", FALSE)
    /\ UNCHANGED <<lock, thread, variant, track, budget, snap, iter, next, views, severed>>

\* Node::detach(&self).
RcDetach(h) ==
    /\ RcV
    /\ h \in handles
    /\ IF rc_parent(h) = NoNode
       THEN /\ last' = Op("detach", h, NoNode, 0, "none", FALSE)
            /\ UNCHANGED <<parent, children, trees, snap>>
       ELSE LET p == rc_parent(h)
                index == detach_index(p, h)
            IN IF index >= Len(children[p])
               THEN \* .expect("Node is not found in its parent")
                    /\ last' = Op("detach", h, p, 0, "panic", FALSE)
                    /\ UNCHANGED <<parent, children, trees, snap>>
               ELSE LET root == children[p][index + 1]
                    IN /\ children' = remove_child(p, index)
                       /\ parent' = clear_parent(parent, root)
                       /\ trees' = trees \cup {root}
                       /\ snap' = Snapshot(root, p)
                       /\ last' = Op("detach", h, p, index, "some", FALSE)
    /\ UNCHANGED <<lock, thread, variant, track, budget, iter, content, alloc, next, views, handles, severed>>

NextRc ==
    \/ \E b \in Builders : RcBuild(b)
    \/ \E n \in Nodes : RcCloneDeep(n)
    \/ \E n \in Nodes : RcCloneDeepOverflow(n)
    \/ \E t \in Nodes : RcRoot(t)
    \/ \E h \in Nodes, i \in 1..MaxNodes, keep \in BOOLEAN : RcChildren(h, i, keep)
    \/ \E h \in Nodes, keep \in BOOLEAN : RcParent(h, keep)
    \/ \E h \in Nodes : RcDropHandle(h)
    \/ \E t \in Nodes : RcDropTree(t)
    \/ \E h, c \in Nodes : RcAppendChild(h, c)
    \/ \E h, c \in Nodes, i \in 0..MaxNodes : RcInsertChild(h, c, i)
    \/ \E h, c \in Nodes, i \in 0..MaxNodes : RcInsertChildPanic(h, c, i)
    \/ \E h \in Nodes : RcDetach(h)

\* ------------------------------------------------------------------ reading a tree
\* Yields an iterator records at most, and length of its queue at most.
MaxYield == 7
MaxQueue == 7

\* The builder specifications of a behaviour that reads trees: those above
\* and x(y(x, x), y), which has the shape a(b(d, e), c) and siblings with
\* equal content.
ReadBuilders ==
    Builders \cup { Bld("x", <<Bld("y", <<Leaf("x"), Leaf("x")>>), Leaf("y")>>) }

\* No iterator is held, so no borrow and no handle of an iterator is alive.
IterIdle == iter.kind = "none"

\* box: node n can be borrowed immutably: no mutable view into its Tree is held.
Readable(n) == n \in alloc /\ \A q \in views : n \notin Subtree(q[1])

\* The nodes an operation of the running variant can be called on: any node
\* of an unborrowed Tree (box); a handle, or the root() of a Tree (rc).
Receivers ==
    IF variant = "box" THEN {n \in alloc : Readable(n)} ELSE handles \cup trees

Reverse(s) == [k \in 1..Len(s) |-> s[Len(s) + 1 - k]]

\* Fault seeded for C16: the nodes are compared by content.
same_content(a, b) == content[a] = content[b]

\* Node::is_same_as: pointer identity of the two node records.
is_same_as(a, b) == a = b

\* Fault seeded for C15: the sibling is compared by content.
is_self_by_content(this, sib) == content[this] = content[sib]

\* The predicate of find_self_next: sib is the node itself.
is_self(this, sib) == is_same_as(this, sib)

\* Iterator::find over seq from 0-based index i: index of the first element
\* that is the node itself; Len(seq) if the iterator is exhausted.
RECURSIVE find_self(_, _, _)
find_self(this, seq, i) ==
    IF i >= Len(seq) THEN Len(seq)
    ELSE IF is_self(this, seq[i + 1]) THEN i
    ELSE find_self(this, seq, i + 1)

\* find_self_next: iter.find(is self) and then iter.next().
find_self_next(this, seq) ==
    LET i == find_self(this, seq, 0)
    IN IF i + 1 < Len(seq) THEN seq[i + 2] ELSE NoNode

\* parent() as the running variant resolves it.
parent_of(n) == IF variant = "rc" THEN rc_parent(n) ELSE parent[n]

\* next_sibling: self.find_self_next(self.parent()?.children.iter()).
next_sibling(n) ==
    IF parent_of(n) = NoNode THEN NoNode
    ELSE find_self_next(n, children[parent_of(n)])

\* prev_sibling: self.find_self_next(self.parent()?.children.iter().rev()).
prev_sibling(n) ==
    IF parent_of(n) = NoNode THEN NoNode
    ELSE find_self_next(n, Reverse(children[parent_of(n)]))

\* Fault seeded for C37: the numbers of children are compared as well.
eq_with_children(a, b) == content[a] = content[b] /\ Len(children[a]) = Len(children[b])

\* PartialEq for BaseNode / Node: the contents are compared.
node_eq(a, b) == content[a] = content[b]

\* The result of a query that returns Option<node>.
OptRes(n) == IF n = NoNode THEN "none" ELSE "some"

BoolRes(b) == IF b THEN "true" ELSE "false"

NextSibling(n) ==
    /\ Running
    /\ IterIdle
    /\ n \in Receivers
    /\ last' = Op("next_sibling", n, next_sibling(n), 0, OptRes(next_sibling(n)), FALSE)
    /\ UNCHANGED <<lock, thread, variant, track, budget, snap, iter, content, parent, children, alloc, next,
                   trees, views, handles, severed>>

PrevSibling(n) ==
    /\ Running
    /\ IterIdle
    /\ n \in Receivers
    /\ last' = Op("prev_sibling", n, prev_sibling(n), 0, OptRes(prev_sibling(n)), FALSE)
    /\ UNCHANGED <<lock, thread, variant, track, budget, snap, iter, content, parent, children, alloc, next,
                   trees, views, handles, severed>>

IsSameAs(a, b) ==
    /\ Running
    /\ IterIdle
    /\ a \in Receivers
    /\ b \in Receivers
    /\ last' = Op("is_same_as", a, b, 0, BoolRes(is_same_as(a, b)), FALSE)
    /\ UNCHANGED <<lock, thread, variant, track, budget, snap, iter, content, parent, children, alloc, next,
                   trees, views, handles, severed>>

\* PartialEq for BaseNode / Node on any two nodes the caller can read.
NodeEq(a, b) ==
    /\ Running
    /\ IterIdle
    /\ a \in Receivers
    /\ b \in Receivers
    /\ last' = Op("node_eq", a, b, 0, BoolRes(node_eq(a, b)), FALSE)
    /\ UNCHANGED <<lock, thread, variant, track, budget, snap, iter, content, parent, children, alloc, next,
                   trees, views, handles, severed>>

\* PartialEq for Tree: self.root().eq(other.root()).
TreeEq(t, u) ==
    /\ Running
    /\ IterIdle
    /\ t \in trees
    /\ u \in trees
    /\ Readable(t)
    /\ Readable(u)
    /\ last' = Op("eq", t, u, 0, BoolRes(node_eq(t, u)), FALSE)
    /\ UNCHANGED <<lock, thread, variant, track, budget, snap, iter, content, parent, children, alloc, next,
                   trees, views, handles, severed>>

\* ------------------------------------------------------------------ iterators
\* Fault seeded for C17: the children are put in front of the queue.
bfs_extend_front(queue, cs) == cs \o queue

\* IterBFS::next, step 3: self.queue.extend(popped.children()).
bfs_extend(queue, cs) == queue \o cs

\* Fault seeded for C18: the children are pushed in sibling order.
dfs_extend_forward(stack, cs) == stack \o cs

\* IterDFS::next, step 3: self.stack.extend(popped.children().rev()).
dfs_extend(stack, cs) == stack \o Reverse(cs)

\* Fault seeded for C32: the children are moved out of the popped node.
children_drained(ch, popped) == [ch EXCEPT ![popped] = <<>>]

\* IterBFS::next / IterDFS::next, step 3: popped.children() collects references
\* to the children (rc: ref_clone of each); the children Vec stays as it is.
children_read(ch, popped) == ch

\* The yields recorded so far, with one more.
Yielded(n) == IF Len(iter.out) < MaxYield THEN Append(iter.out, n) ELSE iter.out

\* IterBFS::new / IterDFS::new: node.iter_bfs(), node.iter_dfs().
IterNew(kind, n) ==
    /\ Running
    /\ IterIdle
    /\ n \in Receivers
    /\ iter' = [kind |-> kind, start |-> n, queue |-> <<n>>, out |-> <<>>, done |-> FALSE]
    /\ last' = Op(IF kind = "bfs" THEN "iter_bfs" ELSE "iter_dfs", n, NoNode, 0, "ok", FALSE)
    /\ UNCHANGED <<lock, thread, variant, track, budget, snap, content, parent, children, alloc, next,
                   trees, views, handles, severed>>

\* IterBFS::next: pop_front, then enqueue the children of the popped node.
BfsNext ==
    /\ Running
    /\ iter.kind = "bfs"
    /\ IF iter.queue = <<>>
       THEN /\ iter' = [iter EXCEPT !.done = TRUE]
            /\ children' = children
       ELSE LET popped == Head(iter.queue)
                queue == bfs_extend(Tail(iter.queue), children[popped])
            IN /\ Len(queue) <= MaxQueue
               /\ iter' = [iter EXCEPT !.queue = queue, !.out = Yielded(popped)]
               /\ children' = children_read(children, popped)
    /\ UNCHANGED <<lock, thread, variant, track, budget, snap, content, parent, alloc, next,
                   trees, views, handles, severed, last>>

\* IterDFS::next: pop, then push the children of the popped node reversed.
DfsNext ==
    /\ Running
    /\ iter.kind = "dfs"
    /\ IF iter.queue = <<>>
       THEN /\ iter' = [iter EXCEPT !.done = TRUE]
            /\ children' = children
       ELSE LET popped == iter.queue[Len(iter.queue)]
                stack == dfs_extend(SubSeq(iter.queue, 1, Len(iter.queue) - 1), children[popped])
            IN /\ Len(stack) <= MaxQueue
               /\ iter' = [iter EXCEPT !.queue = stack, !.out = Yielded(popped)]
               /\ children' = children_read(children, popped)
    /\ UNCHANGED <<lock, thread, variant, track, budget, snap, content, parent, alloc, next,
                   trees, views, handles, severed, last>>

\* The iterator goes out of scope.
IterDrop ==
    /\ Running
    /\ ~IterIdle
    /\ iter' = NoIter
    /\ UNCHANGED <<lock, thread, variant, track, budget, snap, content, parent, children, alloc, next,
                   trees, views, handles, severed, last>>

\* ------------------------------------------------------------------ specification
InitVariant(vs) ==
    /\ variant \in vs
    /\ track = FALSE
    /\ budget = MaxNodes
    /\ snap = NoSnap(FALSE)
    /\ iter = NoIter
    /\ content = [n \in Nodes |-> NoContent]
    /\ parent = [n \in Nodes |-> NoNode]
    /\ children = [n \in Nodes |-> <<>>]
    /\ alloc = {}
    /\ next = 0
    /\ trees = {}
    /\ views = {}
    /\ handles = {}
    /\ severed = {}
    /\ last = Op("init", NoNode, NoNode, 0, "ok", FALSE)
    /\ lock = [n \in Nodes |-> Unlocked]
    /\ thread = [t \in Threads |-> Idle]

Init == InitVariant(Variants)

Next == NextBox \/ NextRc

\* Both variants.
Spec == Init /\ [][Next]_vars

\* The pinned-box variant alone.
SpecBox == InitVariant({"box"}) /\ [][NextBox]_vars

\* The reference-counted variant alone.
SpecRc == InitVariant({"rc"}) /\ [][NextRc]_vars

\* The pinned-box variant's Tree operations with the history of detached
\* nodes kept.
InitStale ==
    /\ variant = "box"
    /\ track = TRUE
    /\ budget = MaxNodes
    /\ snap = NoSnap(FALSE)
    /\ iter = NoIter
    /\ content = [n \in Nodes |-> NoContent]
    /\ parent = [n \in Nodes |-> NoNode]
    /\ children = [n \in Nodes |-> <<>>]
    /\ alloc = {}
    /\ next = 0
    /\ trees = {}
    /\ views = {}
    /\ handles = {}
    /\ severed = {}
    /\ last = Op("init", NoNode, NoNode, 0, "ok", FALSE)
    /\ lock = [n \in Nodes |-> Unlocked]
    /\ thread = [t \in Threads |-> Idle]

NextStale ==
    \/ \E b \in Builders : BoxBuild(b)
    \/ \E t, d \in Nodes : BorrowDescendant(t, d)
    \/ \E t, d \in Nodes : BorrowDescendantDangling(t, d)
    \/ \E q \in views : ReleaseView(q)
    \/ \E q \in views, c \in Nodes : AppendChild(q, c)
    \/ \E t, d \in Nodes : DetachDescendant(t, d)
    \/ \E t, d \in Nodes : DetachDescendantDangling(t, d)
    \/ \E t \in Nodes : DropTree(t)

SpecStale == InitStale /\ [][NextStale]_vars

\* Both variants, detaching and re-attaching, with the heap before the last
\* detach kept.
InitMove ==
    /\ variant \in Variants
    /\ track = FALSE
    /\ budget = MaxNodes
    /\ snap = NoSnap(TRUE)
    /\ iter = NoIter
    /\ content = [n \in Nodes |-> NoContent]
    /\ parent = [n \in Nodes |-> NoNode]
    /\ children = [n \in Nodes |-> <<>>]
    /\ alloc = {}
    /\ next = 0
    /\ trees = {}
    /\ views = {}
    /\ handles = {}
    /\ severed = {}
    /\ last = Op("init", NoNode, NoNode, 0, "ok", FALSE)
    /\ lock = [n \in Nodes |-> Unlocked]
    /\ thread = [t \in Threads |-> Idle]

NextMove ==
    \/ \E b \in Builders : BoxBuild(b)
    \/ \E t \in Nodes : RootMut(t)
    \/ \E q \in views : ReleaseView(q)
    \/ \E q \in views, c \in Nodes : AppendChild(q, c)
    \/ \E t, d \in Nodes : DetachDescendant(t, d)
    \/ \E b \in Builders : RcBuild(b)
    \/ \E t \in Nodes : RcRoot(t)
    \/ \E h \in Nodes, i \in 1..MaxNodes, keep \in BOOLEAN : RcChildren(h, i, keep)
    \/ \E h, c \in Nodes : RcAppendChild(h, c)
    \/ \E h \in Nodes : RcDetach(h)

SpecMove == InitMove /\ [][NextMove]_vars

\* Both variants: building, cloning, attaching, and then reading the trees
\* (siblings, identity, equality, traversal).
InitRead ==
    /\ variant \in Variants
    /\ track = FALSE
    /\ budget = MaxHeap
    /\ snap = NoSnap(FALSE)
    /\ iter = NoIter
    /\ content = [n \in Nodes |-> NoContent]
    /\ parent = [n \in Nodes |-> NoNode]
    /\ children = [n \in Nodes |-> <<>>]
    /\ alloc = {}
    /\ next = 0
    /\ trees = {}
    /\ views = {}
    /\ handles = {}
    /\ severed = {}
    /\ last = Op("init", NoNode, NoNode, 0, "ok", FALSE)
    /\ lock = [n \in Nodes |-> Unlocked]
    /\ thread = [t \in Threads |-> Idle]

NextRead ==
    \/ IterIdle /\ \E b \in ReadBuilders : BoxBuild(b)
    \/ IterIdle /\ \E n \in Nodes : BoxCloneDeep(n)
    \/ IterIdle /\ \E b \in ReadBuilders : RcBuild(b)
    \/ IterIdle /\ \E n \in Nodes : RcCloneDeep(n)
    \/ IterIdle /\ \E n \in Nodes : RcCloneDeepOverflow(n)
    \/ IterIdle /\ \E t \in Nodes : RcRoot(t)
    \/ IterIdle /\ \E h \in Nodes, i \in 1..MaxNodes, keep \in BOOLEAN : RcChildren(h, i, keep)
    \/ IterIdle /\ \E h, c \in Nodes : RcAppendChild(h, c)
    \/ \E n \in Nodes : NextSibling(n)
    \/ \E n \in Nodes : PrevSibling(n)
    \/ \E a, b \in Nodes : IsSameAs(a, b)
    \/ \E t, u \in Nodes : TreeEq(t, u)
    \/ \E a, b \in Nodes : NodeEq(a, b)
    \/ \E kind \in {"bfs", "dfs"}, n \in Nodes : IterNew(kind, n)
    \/ BfsNext
    \/ DfsNext
    \/ IterDrop

SpecRead == InitRead /\ [][NextRead]_vars

\* The builder specifications of a behaviour that clones: x(y) and x(y(x)).
CloneBuilders ==
    { Bld("x", <<Leaf("y")>>), Bld("x", <<Bld("y", <<Leaf("x")>>)>>) }

\* The pinned-box variant with the last detach recorded: Trees are built,
\* subtrees are detached, and the Trees so returned are borrowed from, appended
\* to and detached from in turn.
InitDetached == InitMove /\ variant = "box"

NextDetached ==
    \/ \E b \in Builders : BoxBuild(b)
    \/ \E t \in Nodes : RootMut(t)
    \/ \E t, d \in Nodes : BorrowDescendant(t, d)
    \/ \E q \in views : ReleaseView(q)
    \/ \E q \in views, c \in Nodes : AppendChild(q, c)
    \/ \E t, d \in Nodes : DetachDescendant(t, d)

SpecDetached == InitDetached /\ [][NextDetached]_vars

\* The reference-counted variant: Trees are built, handles to their nodes are
\* taken, Trees and handles are dropped, and the handles that are left are
\* asked for their parent and siblings and are detached.
InitOrphan == InitRead /\ variant = "rc"

NextOrphan ==
    \/ \E b \in Builders : RcBuild(b)
    \/ \E t \in Nodes : RcRoot(t)
    \/ \E h \in Nodes, i \in 1..MaxNodes, keep \in BOOLEAN : RcChildren(h, i, keep)
    \/ \E h \in Nodes, keep \in BOOLEAN : RcParent(h, keep)
    \/ \E h \in Nodes : RcDropHandle(h)
    \/ \E t \in Nodes : RcDropTree(t)
    \/ \E h \in Nodes : RcDetach(h)
    \/ \E n \in Nodes : NextSibling(n)
    \/ \E n \in Nodes : PrevSibling(n)

SpecOrphan == InitOrphan /\ [][NextOrphan]_vars

\* Both variants with the heap before the last detach kept: subtrees are
\* detached, and the Tree of the last detach is inserted, at any index, into the
\* node it was taken from.
NextRoundTrip ==
    \/ \E b \in Builders : BoxBuild(b)
    \/ \E t \in Nodes : RootMut(t)
    \/ \E t, d \in Nodes : BorrowDescendant(t, d)
    \/ \E q \in views : ReleaseView(q)
    \/ \E q \in views, i \in 0..MaxNodes : q[2] = snap.from /\ InsertChild(q, snap.node, i)
    \/ \E t, d \in Nodes : DetachDescendant(t, d)
    \/ \E b \in Builders : RcBuild(b)
    \/ \E t \in Nodes : RcRoot(t)
    \/ \E h \in Nodes, i \in 1..MaxNodes, keep \in BOOLEAN : RcChildren(h, i, keep)
    \/ \E h \in Nodes : RcDropHandle(h)
    \/ \E i \in 0..MaxNodes : RcInsertChild(snap.from, snap.node, i)
    \/ \E h \in Nodes : RcDetach(h)

SpecRoundTrip == InitMove /\ [][NextRoundTrip]_vars

\* The contents a behaviour that clones writes into nodes.
CloneWrites == {"y"}

\* Both variants: one tree is built, then it is cloned, and then the clones and
\* the source are changed.
NextClone ==
    \/ \E b \in CloneBuilders : next = 0 /\ BoxBuild(b)
    \/ \E n \in Nodes : BoxCloneDeep(n)
    \/ \E n \in Nodes : BoxClone(n)
    \/ \E t \in Nodes : RootMut(t)
    \/ \E q \in views : ReleaseView(q)
    \/ \E q \in views, c \in CloneWrites : SetContent(q, c)
    \/ \E q \in views, c \in Nodes : AppendChild(q, c)
    \/ \E q \in views, c \in Nodes, i \in 0..MaxNodes : InsertChild(q, c, i)
    \/ \E t, d \in Nodes : DetachDescendant(t, d)
    \/ \E b \in CloneBuilders : next = 0 /\ RcBuild(b)
    \/ \E n \in Nodes : RcCloneDeep(n)
    \/ \E n \in Nodes, keep \in BOOLEAN : RcClone(n, keep)
    \/ \E t \in Nodes : RcRoot(t)
    \/ \E h \in Nodes, i \in 1..MaxNodes, keep \in BOOLEAN : RcChildren(h, i, keep)
    \/ \E h \in Nodes, c \in CloneWrites : RcSetContent(h, c)
    \/ \E h, c \in Nodes : RcAppendChild(h, c)
    \/ \E h, c \in Nodes, i \in 0..MaxNodes : RcInsertChild(h, c, i)
    \/ \E h \in Nodes : RcDetach(h)

SpecClone == Init /\ [][NextClone]_vars

\* The same, where an iterator that has a next step takes it.
SpecReadFair == SpecRead /\ WF_vars(BfsNext) /\ WF_vars(DfsNext)

\* ------------------------------------------------------------------ threads (feature arc)
\* With feature arc a node is Arc<RwLock<InnerNode>> (parking_lot), and threads
\* call the methods of Node on handles they share. borrow() is RwLock::read and
\* borrow_mut() is RwLock::write; a guard made inside a statement is dropped at
\* the end of that statement. Every step below is one lock acquisition together
\* with what is done under that guard. The calls of the threads overlap, so
\* they are followed through `thread`, and `last` is left alone.

\* The insert_child indexes the threads pass.
ThreadIndexes == {0}

\* The thread is at statement pc of a call on node n, with argument a and index i.
At(pc, n, a, i) == [pc |-> pc, self |-> n, arg |-> a, idx |-> i]

\* The first statement of each method.
FirstPc(op) ==
    CASE op = "content" -> "content"
      [] op = "content_mut" -> "content_mut"
      [] op = "children" -> "children"
      [] op = "parent" -> "parent"
      [] op = "iter_next" -> "iter_next"
      [] op = "eq" -> "eq_self"
      [] op = "append_child" -> "append_parent"
      [] op = "insert_child" -> "insert_parent"
      [] op = "detach" -> "detach_parent"

\* The lock the thread is about to take: the node, and "r" for borrow() or "w"
\* for borrow_mut().
Wants(t) ==
    LET c == thread[t]
    IN CASE c.pc \in {"content", "children", "parent", "iter_next", "eq_self", "detach_parent"}
              -> <<c.self, "r">>
         [] c.pc \in {"eq_other", "detach_find"} -> <<c.arg, "r">>
         [] c.pc \in {"content_mut", "append_push", "insert_at"} -> <<c.self, "w">>
         [] c.pc \in {"append_parent", "insert_parent", "detach_remove", "detach_clear"}
              -> <<c.arg, "w">>
         [] OTHER -> <<NoNode, "">>

\* parking_lot's RwLock::read: granted when no writer holds the lock and no
\* writer waits for it (the task-fair policy: a waiting writer keeps new
\* readers out, also a reader that holds a read guard already).
CanRead(n) ==
    /\ lock[n].w = NoThread
    /\ \A u \in Threads : Wants(u) # <<n, "w">>

\* Fault seeded for C34: a write is granted while another writer holds the lock.
write_beside_writer(n) == \A u \in Threads : lock[n].r[u] = 0

\* parking_lot's RwLock::write: granted when nobody holds the lock.
CanWrite(n) ==
    /\ lock[n].w = NoThread
    /\ \A u \in Threads : lock[n].r[u] = 0

AddRead(t, n) == [lock EXCEPT ![n].r[t] = @ + 1]
DropRead(t, n) == [lock EXCEPT ![n].r[t] = @ - 1]

\* The guards thread t has been handed by content() / content_mut() and has
\* not dropped yet.
GuardsOf(t) == {n \in Nodes : lock[n].w = t \/ lock[n].r[t] > 0}

Return(t) == [thread EXCEPT ![t] = Idle]

\* A thread that is in no call and holds no guard calls a method of Node on a
\* handle; append_child / insert_child move a Tree into the call.
ArcCall(t, op, n, a, i) ==
    /\ RcV
    /\ thread[t] = Idle
    /\ GuardsOf(t) = {}
    /\ n \in handles
    /\ CASE op \in {"append_child", "insert_child"} ->
              /\ a \in trees
              /\ (op = "append_child" => i = 0)
              /\ trees' = trees \ {a}
         [] op = "eq" -> a \in handles /\ i = 0 /\ trees' = trees
         [] OTHER -> a = NoNode /\ i = 0 /\ trees' = trees
    /\ thread' = [thread EXCEPT ![t] = At(FirstPc(op), n, a, i)]
    /\ UNCHANGED <<lock, last, variant, track, budget, snap, iter, content, parent, children,
                   alloc, next, views, handles, severed>>

\* Node::content: the read guard is handed to the caller.
ArcContent(t) ==
    LET c == thread[t]
    IN /\ RcV
       /\ c.pc = "content"
       /\ CanRead(c.self)
       /\ lock' = AddRead(t, c.self)
       /\ thread' = Return(t)
       /\ UNCHANGED <<last, variant, track, budget, snap, iter, content, parent, children,
                      alloc, next, trees, views, handles, severed>>

\* Node::content_mut: the write guard is handed to the caller.
ArcContentMut(t) ==
    LET c == thread[t]
    IN /\ RcV
       /\ c.pc = "content_mut"
       /\ CanWrite(c.self)
       /\ lock' = [lock EXCEPT ![c.self].w = t]
       /\ thread' = Return(t)
       /\ UNCHANGED <<last, variant, track, budget, snap, iter, content, parent, children,
                      alloc, next, trees, views, handles, severed>>

\* The caller drops a guard that content() / content_mut() returned.
ArcRelease(t) ==
    /\ RcV
    /\ thread[t] = Idle
    /\ \E n \in GuardsOf(t) :
          /\ lock' = IF lock[n].w = t THEN [lock EXCEPT ![n].w = NoThread]
                     ELSE DropRead(t, n)
    /\ UNCHANGED <<last, thread, variant, track, budget, snap, iter, content, parent, children,
                   alloc, next, trees, views, handles, severed>>

\* Node::children: one statement under a read guard.
ArcChildren(t) ==
    LET c == thread[t]
    IN /\ RcV
       /\ c.pc = "children"
       /\ CanRead(c.self)
       /\ thread' = Return(t)
       /\ UNCHANGED <<last, lock, variant, track, budget, snap, iter, content, parent, children,
                      alloc, next, trees, views, handles, severed>>

\* Node::parent: one statement under a read guard.
ArcParent(t) ==
    LET c == thread[t]
    IN /\ RcV
       /\ c.pc = "parent"
       /\ CanRead(c.self)
       /\ thread' = Return(t)
       /\ UNCHANGED <<last, lock, variant, track, budget, snap, iter, content, parent, children,
                      alloc, next, trees, views, handles, severed>>

\* IterBFS::next / IterDFS::next with node self at the front: the node is
\* popped and its children() are read under a read guard.
ArcIterNext(t) ==
    LET c == thread[t]
    IN /\ RcV
       /\ c.pc = "iter_next"
       /\ CanRead(c.self)
       /\ thread' = Return(t)
       /\ UNCHANGED <<last, lock, variant, track, budget, snap, iter, content, parent, children,
                      alloc, next, trees, views, handles, severed>>

\* append_child / insert_child, first statement:
\* child.root.borrow_mut().parent = Some(self.downgrade()).
ArcSetParent(t) ==
    LET c == thread[t]
    IN /\ RcV
       /\ c.pc \in {"append_parent", "insert_parent"}
       /\ CanWrite(c.arg)
       /\ parent' = set_parent(c.self, c.arg)
       /\ thread' = [thread EXCEPT ![t].pc =
                        IF c.pc = "append_parent" THEN "append_push" ELSE "insert_at"]
       /\ UNCHANGED <<lock, last, variant, track, budget, snap, iter, content, children,
                      alloc, next, trees, views, handles, severed>>

\* append_child, second statement: self.borrow_mut().children.push(child.root).
ArcPush(t) ==
    LET c == thread[t]
    IN /\ RcV
       /\ c.pc = "append_push"
       /\ CanWrite(c.self)
       /\ children' = push_child(c.self, c.arg)
       /\ thread' = Return(t)
       /\ UNCHANGED <<last, lock, variant, track, budget, snap, iter, content, parent,
                      alloc, next, trees, views, handles, severed>>

\* insert_child, second statement: self.borrow_mut().children.insert(index, child.root);
\* Vec::insert panics for index > len, and the unwinding drops the guard.
ArcInsert(t) ==
    LET c == thread[t]
    IN /\ RcV
       /\ c.pc = "insert_at"
       /\ CanWrite(c.self)
       /\ IF c.idx <= Len(children[c.self])
          THEN /\ children' = insert_at(c.self, c.arg, c.idx)
          ELSE /\ children' = insert_rejected(c.self, c.arg, c.idx)
       /\ thread' = Return(t)
       /\ UNCHANGED <<last, lock, variant, track, budget, snap, iter, content, parent,
                      alloc, next, trees, views, handles, severed>>

\* detach, first statement: let parent = self.parent()?.
ArcDetachParent(t) ==
    LET c == thread[t]
    IN /\ RcV
       /\ c.pc = "detach_parent"
       /\ CanRead(c.self)
       /\ IF rc_parent(c.self) = NoNode
          THEN /\ thread' = Return(t)
          ELSE /\ thread' = [thread EXCEPT ![t] = At("detach_find", c.self, rc_parent(c.self), 0)]
       /\ UNCHANGED <<last, lock, variant, track, budget, snap, iter, content, parent, children,
                      alloc, next, trees, views, handles, severed>>

\* detach, second statement: the index of self in parent.children, looked up
\* under a read guard on the parent that is dropped at the end of the statement.
ArcDetachFind(t) ==
    LET c == thread[t]
        index == detach_index(c.arg, c.self)
    IN /\ RcV
       /\ c.pc = "detach_find"
       /\ CanRead(c.arg)
       /\ IF index >= Len(children[c.arg])
          THEN \* .expect("Node is not found in its parent")
               /\ thread' = Return(t)
          ELSE /\ thread' = [thread EXCEPT ![t].pc = "detach_remove", ![t].idx = index]
       /\ UNCHANGED <<last, lock, variant, track, budget, snap, iter, content, parent, children,
                      alloc, next, trees, views, handles, severed>>

\* detach, third statement: parent.borrow_mut().children.remove(index), with
\* the index found before; Vec::remove panics for index >= len.
ArcDetachRemove(t) ==
    LET c == thread[t]
    IN /\ RcV
       /\ c.pc = "detach_remove"
       /\ CanWrite(c.arg)
       /\ IF c.idx >= Len(children[c.arg])
          THEN /\ thread' = Return(t)
               /\ children' = children
          ELSE /\ thread' = [thread EXCEPT ![t].pc = "detach_clear",
                                           ![t].arg = children[c.arg][c.idx + 1]]
               /\ children' = remove_child(c.arg, c.idx)
       /\ UNCHANGED <<last, lock, variant, track, budget, snap, iter, content, parent,
                      alloc, next, trees, views, handles, severed>>

\* detach, fourth statement: root.borrow_mut().parent = None; Some(Tree { root }).
ArcDetachClear(t) ==
    LET c == thread[t]
    IN /\ RcV
       /\ c.pc = "detach_clear"
       /\ CanWrite(c.arg)
       /\ parent' = clear_parent(parent, c.arg)
       /\ trees' = trees \cup {c.arg}
       /\ thread' = Return(t)
       /\ UNCHANGED <<last, lock, variant, track, budget, snap, iter, content, children,
                      alloc, next, views, handles, severed>>

\* Node::eq, the receiver of self.borrow().eq(&*other.borrow()): the read guard
\* on self is taken first and lives to the end of the statement.
ArcEqSelf(t) ==
    LET c == thread[t]
    IN /\ RcV
       /\ c.pc = "eq_self"
       /\ CanRead(c.self)
       /\ lock' = AddRead(t, c.self)
       /\ thread' = [thread EXCEPT ![t].pc = "eq_other"]
       /\ UNCHANGED <<last, variant, track, budget, snap, iter, content, parent, children,
                      alloc, next, trees, views, handles, severed>>

\* Node::eq, the argument: the read guard on other is taken while the guard on
\* self is held; the contents are compared and both guards are dropped.
ArcEqOther(t) ==
    LET c == thread[t]
    IN /\ RcV
       /\ c.pc = "eq_other"
       /\ CanRead(c.arg)
       /\ lock' = DropRead(t, c.self)
       /\ thread' = Return(t)
       /\ UNCHANGED <<last, variant, track, budget, snap, iter, content, parent, children,
                      alloc, next, trees, views, handles, severed>>

\* The statements of the call thread t is in.
ArcStep(t) ==
    \/ ArcContent(t)
    \/ ArcContentMut(t)
    \/ ArcChildren(t)
    \/ ArcParent(t)
    \/ ArcIterNext(t)
    \/ ArcSetParent(t)
    \/ ArcPush(t)
    \/ ArcInsert(t)
    \/ ArcDetachParent(t)
    \/ ArcDetachFind(t)
    \/ ArcDetachRemove(t)
    \/ ArcDetachClear(t)
    \/ ArcEqSelf(t)
    \/ ArcEqOther(t)

\* The methods the threads call: thread 1 reads and compares, the other
\* threads change content and structure.
ThreadCalls(t) ==
    IF t = 1
    THEN {"content", "children", "parent", "iter_next", "eq"}
    ELSE {"content_mut", "append_child", "insert_child", "detach"}

\* The heap after NodeBuilder x(y) and NodeBuilder x have been built: the
\* Trees rooted at 1 (with child 2) and at 3.
ThreadHeap ==
    build(build([content |-> [n \in Nodes |-> NoContent],
                 parent |-> [n \in Nodes |-> NoNode],
                 children |-> [n \in Nodes |-> <<>>],
                 next |-> 0],
                Bld("x", <<Leaf("y")>>)),
          Leaf("x"))

\* Two Trees have been built and every thread has been given a handle to
\* every node.
InitThreads ==
    /\ variant = "rc"
    /\ track = FALSE
    /\ budget = ThreadHeap.next
    /\ snap = NoSnap(FALSE)
    /\ iter = NoIter
    /\ content = ThreadHeap.content
    /\ parent = ThreadHeap.parent
    /\ children = ThreadHeap.children
    /\ alloc = 1..ThreadHeap.next
    /\ next = ThreadHeap.next
    /\ trees = {1, 3}
    /\ views = {}
    /\ handles = 1..ThreadHeap.next
    /\ severed = {}
    /\ last = Op("build", NoNode, 3, 0, "some", FALSE)
    /\ lock = [n \in Nodes |-> Unlocked]
    /\ thread = [t \in Threads |-> Idle]

NextThreads ==
    \/ \E t \in Threads : \E op \in ThreadCalls(t), n \in handles,
          a \in handles \cup {NoNode}, i \in ThreadIndexes : ArcCall(t, op, n, a, i)
    \/ \E t \in Threads : ArcRelease(t)
    \/ \E t \in Threads : ArcContent(t)
    \/ \E t \in Threads : ArcContentMut(t)
    \/ \E t \in Threads : ArcChildren(t)
    \/ \E t \in Threads : ArcParent(t)
    \/ \E t \in Threads : ArcIterNext(t)
    \/ \E t \in Threads : ArcSetParent(t)
    \/ \E t \in Threads : ArcPush(t)
    \/ \E t \in Threads : ArcInsert(t)
    \/ \E t \in Threads : ArcDetachParent(t)
    \/ \E t \in Threads : ArcDetachFind(t)
    \/ \E t \in Threads : ArcDetachRemove(t)
    \/ \E t \in Threads : ArcDetachClear(t)
    \/ \E t \in Threads : ArcEqSelf(t)
    \/ \E t \in Threads : ArcEqOther(t)

SpecThreads == InitThreads /\ [][NextThreads]_vars

\* The scheduler runs every thread that can run, and parking_lot hands a lock
\* to every thread that keeps waiting for it (no reader or writer starves); a
\* caller that holds a guard drops it.
SpecThreadsFair ==
    /\ SpecThreads
    /\ \A t \in Threads : SF_vars(ArcStep(t))
    /\ \A t \in Threads : WF_vars(ArcRelease(t))

\* The contents the threads write through a guard of content_mut().
WriterWrites == {"x"}

\* *guard = c: the caller writes the content through the write guard that
\* content_mut() returned and that it still holds.
ArcWriteContent(t, n, c) ==
    /\ RcV
    /\ thread[t] = Idle
    /\ lock[n].w = t
    /\ content[n] # c
    /\ content' = [content EXCEPT ![n] = c]
    /\ UNCHANGED <<last, lock, thread, variant, track, budget, snap, iter, parent, children,
                   alloc, next, trees, views, handles, severed>>

\* The methods of Node that write.
WriterCalls == {"content_mut", "append_child", "insert_child", "detach"}

\* Every thread calls the writing methods: the calls of two writers overlap
\* statement by statement.
NextWriters ==
    \/ \E t \in Threads : \E op \in WriterCalls, n \in handles,
          a \in handles \cup {NoNode}, i \in ThreadIndexes : ArcCall(t, op, n, a, i)
    \/ \E t \in Threads : ArcRelease(t)
    \/ \E t \in Threads : \E n \in handles, c \in WriterWrites : ArcWriteContent(t, n, c)
    \/ \E t \in Threads : ArcContentMut(t)
    \/ \E t \in Threads : ArcSetParent(t)
    \/ \E t \in Threads : ArcPush(t)
    \/ \E t \in Threads : ArcInsert(t)
    \/ \E t \in Threads : ArcDetachParent(t)
    \/ \E t \in Threads : ArcDetachFind(t)
    \/ \E t \in Threads : ArcDetachRemove(t)
    \/ \E t \in Threads : ArcDetachClear(t)

SpecWriters == InitThreads /\ [][NextWriters]_vars

\* ------------------------------------------------------------------ properties
\* The parent a caller observes: the box variant reads the parent pointer,
\* the rc variant upgrades the Weak reference.
ParentIn(pa, al, n) ==
    IF variant = "rc" THEN (IF pa[n] \in al THEN pa[n] ELSE NoNode) ELSE pa[n]

ParentOf(n) == ParentIn(parent, alloc, n)

\* The nodes strictly below t, read top-down from the children lists.
ProperDescendants(t) == Reach(children, Range(children[t]))

\* The nodes reached from the set S by following parent references upwards.
RECURSIVE UpClosure(_)
UpClosure(S) ==
    LET T == S \cup ({ParentOf(m) : m \in S} \ {NoNode})
    IN IF T = S THEN S ELSE UpClosure(T)

Ancestors(n) == UpClosure({ParentOf(n)} \ {NoNode})

\* The sequence s without the element x, the order of the others kept.
Without(s, x) == SelectSeq(s, LAMBDA e : e # x)

\* The subtree rooted at c is the same before and after the step, the parent
\* reference of c itself left aside.
SubtreeUnchanged(c) ==
    \A n \in Subtree(c) :
        /\ children'[n] = children[n]
        /\ content'[n] = content[n]
        /\ n # c => parent'[n] = parent[n]

\* C1: in every state, a live node whose parent reference resolves to P
\* appears exactly once in P's children and in no other node's children.
C1_ChildOfItsParentOnce ==
    \A n \in alloc :
        ParentOf(n) # NoNode =>
            /\ Occurrences(children[ParentOf(n)], n) = 1
            /\ \A m \in alloc \ {ParentOf(n)} : Occurrences(children[m], n) = 0

\* C2: in every state, following parent references from a node never comes
\* back to that node.
C2_NoNodeIsItsOwnAncestor == \A n \in alloc : n \notin Ancestors(n)

\* C3: every Tree value the caller holds has a live root whose parent is
\* absent, and that root is the only node of the Tree without a parent: every
\* other node's parent is a node of the same Tree.
C3_TreeRootHasNoParent ==
    \A t \in trees :
        /\ t \in alloc
        /\ ParentOf(t) = NoNode
        /\ \A n \in Subtree(t) \ {t} : ParentOf(n) \in Subtree(t)

\* C3 witness: a detach has just returned a Tree with nodes below its root
\* while the Tree it was taken from is still held.
C3_Witness ==
    /\ last.op \in {"detach_descendant", "detach"}
    /\ last.res = "some"
    /\ \E t \in trees : children[t] # <<>> /\ \E u \in trees \ {t} : children[u] # <<>>

\* C4: detach_descendant called with a reference to the root itself, or to a
\* live node that is not below the root, returns empty and leaves every node
\* and every Tree as it was.
C4_DetachRejectsNonDescendant ==
    [][ (/\ last'.op = "detach_descendant"
         /\ ~last'.stale
         /\ last'.arg \notin ProperDescendants(last'.recv))
        => (/\ last'.res = "none"
            /\ UNCHANGED <<content, parent, children, alloc, trees>>) ]_vars

\* C4 witness: detach_descendant was refused for a non-root node of another Tree.
C4_Witness ==
    /\ last.op = "detach_descendant"
    /\ last.res = "none"
    /\ ~last.stale
    /\ last.arg \in alloc
    /\ last.arg \notin Subtree(last.recv)
    /\ parent[last.arg] # NoNode

C6_SeveredRefReturnsEmpty ==
    [][ (/\ last'.op \in {"detach_descendant", "borrow_descendant"}
         /\ <<last'.recv, last'.arg>> \in severed)
        => (last'.res = "none" /\ ~last'.stale) ]_vars

\* C7: detach_descendant or borrow_descendant called with a reference to a
\* node that has been dropped returns empty, and no operation reads a
\* record that is not live.
C7_DroppedRefFailsCleanly ==
    /\ ~last.stale
    /\ (/\ last.op \in {"detach_descendant", "borrow_descendant"}
        /\ last.arg \notin alloc)
       => last.res = "none"

\* The outcome of Tree::detach_descendant(d) on Tree t is a Tree.
detach_would_succeed(t, d) ==
    is_descendant(t, d) /\ detach_index(parent[d], d) < Len(children[parent[d]])

\* C8: borrow_descendant with a reference to a live node returns a view
\* exactly when detach_descendant with the same reference would return a
\* Tree, that is exactly when the node is below the root; the view is of the
\* referenced node, and no node or Tree changes.
C8_BorrowSucceedsWhenDetachWould ==
    [][ (last'.op = "borrow_descendant" /\ ~last'.stale)
        => LET t == last'.recv
               d == last'.arg
           IN /\ (last'.res = "some") <=> detach_would_succeed(t, d)
              /\ (last'.res = "some") <=> (d \in ProperDescendants(t))
              /\ last'.res \in {"some", "none"}
              /\ last'.res = "some" => views' = views \cup {<<t, d>>}
              /\ last'.res = "none" => views' = views
              /\ UNCHANGED <<content, parent, children, alloc, trees>> ]_vars

\* C8 witness: a view of a node two levels below the root was handed out.
C8_Witness ==
    /\ last.op = "borrow_descendant"
    /\ last.res = "some"
    /\ ~last.stale
    /\ <<last.recv, last.arg>> \in views
    /\ parent[last.arg] \notin {NoNode, last.recv}

\* C9: at any moment at most one mutable view into a given Tree is held.
C9_AtMostOneMutableView ==
    \A t \in trees : Cardinality({q \in views : q[1] = t}) <= 1

\* C10: append_child(t) makes t's root the last child of the receiver, after
\* the children that were there, sets that root's parent to the receiver, and
\* leaves the subtree under t's root as it was.
C10_AppendChildIsLast ==
    [][ (last'.op = "append_child" /\ last'.res = "ok")
        => LET p == last'.recv
               c == last'.arg
           IN /\ children'[p] = Append(children[p], c)
              /\ ParentIn(parent', alloc', c) = p
              /\ SubtreeUnchanged(c) ]_vars

\* C11: insert_child(p, t, index) with index <= len(p.children) succeeds,
\* leaves p.children = old[0..index] ++ [t.root] ++ old[index..], and sets the
\* parent of t's root to p.
C11_InsertChildAtIndex ==
    [][ (/\ last'.op = "insert_child"
         /\ last'.idx <= Len(children[last'.recv]))
        => LET p == last'.recv
               c == last'.arg
               i == last'.idx
               old == children[p]
           IN /\ last'.res = "ok"
              /\ children'[p] = SubSeq(old, 1, i) \o <<c>> \o SubSeq(old, i + 1, Len(old))
              /\ ParentIn(parent', alloc', c) = p ]_vars

\* C11 witness: a Tree was inserted between two children.
C11_Witness ==
    /\ last.op = "insert_child"
    /\ last.res = "ok"
    /\ last.idx >= 1
    /\ last.idx + 1 < Len(children[last.recv])
    /\ children[last.recv][last.idx + 1] = last.arg
    /\ last.recv \notin Subtree(last.arg)

\* C12: insert_child(p, t, index) with index > len(p.children) fails and
\* inserts nothing: p's children are the same as before the call and t's root
\* is in no node's children.
C12_InsertOutOfRangeInsertsNothing ==
    [][ (/\ last'.op = "insert_child"
         /\ last'.idx > Len(children[last'.recv]))
        => LET p == last'.recv
               c == last'.arg
           IN /\ last'.res # "ok"
              /\ children'[p] = children[p]
              /\ \A n \in Nodes : Occurrences(children'[n], c) = Occurrences(children[n], c) ]_vars

\* C12 witness: an insert_child beyond the end of a non-empty children
\* sequence has failed.
C12_Witness ==
    /\ last.op = "insert_child"
    /\ last.res = "panic"
    /\ last.idx > Len(children[last.recv])
    /\ children[last.recv] # <<>>

\* C13: insert_child given an index beyond the number of children returns an
\* empty result to the caller; it does not panic or abort.
C13_InsertOutOfRangeReturnsEmpty ==
    (last.op = "insert_child" /\ last.res # "ok") => last.res = "none"

\* The detached Tree rooted at snap.node is still as the detach returned it.
DetachedIntact ==
    /\ snap.node # NoNode
    /\ snap.node \in trees
    /\ \A n \in Reach(snap.children, {snap.node}) :
        children[n] = snap.children[n] /\ content[n] = snap.content[n]

\* C14: when a node X has been detached and the returned Tree is appended
\* under another node p, the last child of p is X itself, every node of X's
\* subtree has the content and the children it had before the detach, and X
\* is not among the children of its old parent.
C14_DetachThenAppendMoves ==
    [][ (/\ last'.op = "append_child"
         /\ last'.res = "ok"
         /\ DetachedIntact
         /\ last'.arg = snap.node
         /\ last'.recv \notin {snap.from, snap.node})
        => LET X == snap.node
               p == last'.recv
           IN /\ children'[p] # <<>>
              /\ children'[p][Len(children'[p])] = X
              /\ ParentIn(parent', alloc', X) = p
              /\ \A n \in Reach(snap.children, {X}) :
                    children'[n] = snap.children[n] /\ content'[n] = snap.content[n]
              /\ X \notin Range(children'[snap.from]) ]_vars

\* The sibling the receiver of a sibling query must get: the neighbour at
\* distance d of its place i among the children cs of its parent.
Neighbour(cs, i, d) == IF i + d \in 1..Len(cs) THEN cs[i + d] ELSE NoNode

\* C15: next_sibling / prev_sibling of the i-th child of a parent is the
\* (i+1)-th / (i-1)-th child, found by identity also among siblings of equal
\* content; it is none at the last / first child and for a node that has no
\* parent.
C15_SiblingsByIdentity ==
    (last.op \in {"next_sibling", "prev_sibling"}) =>
        LET n == last.recv
            p == ParentOf(n)
            d == IF last.op = "next_sibling" THEN 1 ELSE -1
        IN /\ p = NoNode => last.res = "none" /\ last.arg = NoNode
           /\ p # NoNode =>
                \A i \in 1..Len(children[p]) :
                    (children[p][i] = n /\ Occurrences(children[p], n) = 1) =>
                        /\ last.arg = Neighbour(children[p], i, d)
                        /\ last.res = OptRes(Neighbour(children[p], i, d))

\* C15 witness: the next sibling of a middle or last child was asked for, and
\* an earlier sibling has the same content as that child.
C15_Witness ==
    /\ last.op = "next_sibling"
    /\ ParentOf(last.recv) # NoNode
    /\ LET cs == children[ParentOf(last.recv)]
       IN \E i, j \in 1..Len(cs) :
            /\ j < i
            /\ cs[i] = last.recv
            /\ content[cs[j]] = content[cs[i]]
            /\ last.arg = Neighbour(cs, i, 1)

\* The subtrees of a and b in the heap (ch, ct) have the same shape, the same
\* order of children and the same contents.
RECURSIVE StructEq(_, _, _, _)
StructEq(ch, ct, a, b) ==
    /\ ct[a] = ct[b]
    /\ Len(ch[a]) = Len(ch[b])
    /\ \A i \in 1..Len(ch[a]) : StructEq(ch, ct, ch[a][i], ch[b][i])

\* Two Trees that are structurally identical, as two builds of one builder.
SameStructure(t, u) ==
    /\ ~CyclicUnder(t)
    /\ ~CyclicUnder(u)
    /\ StructEq(children, content, t, u)

\* C16: is_same_as(a, b) is true exactly when a and b are the same node
\* record; a build and a clone make only records that are none of the
\* records that exist, and structurally identical Trees compare equal.
C16_IdentityIsNotEquality ==
    [][ /\ last'.op = "is_same_as" =>
            (last'.res = "true" <=> last'.recv = last'.arg)
        /\ (last'.op \in {"build", "clone_deep"} /\ last'.res = "some") =>
            /\ Reach(children', {last'.arg}) \cap alloc = {}
            /\ last'.arg \in trees' \ trees
        /\ (last'.op = "eq" /\ SameStructure(last'.recv, last'.arg)) =>
            last'.res = "true" ]_vars

\* C16 witness: the roots of two structurally identical Trees were compared
\* by is_same_as, and are not the same.
C16_Witness ==
    /\ last.op = "is_same_as"
    /\ last.res = "false"
    /\ last.recv \in trees
    /\ last.arg \in trees
    /\ children[last.recv] # <<>>
    /\ SameStructure(last.recv, last.arg)

\* The children of the nodes of seq, in the order of seq and then of siblings.
RECURSIVE ChildrenOfAll(_)
ChildrenOfAll(seq) ==
    IF seq = <<>> THEN <<>> ELSE children[Head(seq)] \o ChildrenOfAll(Tail(seq))

\* The nodes at the depth of level and below it, one depth after the other.
RECURSIVE LevelsFrom(_)
LevelsFrom(level) ==
    IF level = <<>> THEN <<>> ELSE level \o LevelsFrom(ChildrenOfAll(level))

LevelOrder(n) == LevelsFrom(<<n>>)

\* n, then the pre-order of the subtree of each of its children in turn.
RECURSIVE PreOrder(_)
RECURSIVE PreOrderOfAll(_)
PreOrder(n) == <<n>> \o PreOrderOfAll(children[n])
PreOrderOfAll(seq) ==
    IF seq = <<>> THEN <<>> ELSE PreOrder(Head(seq)) \o PreOrderOfAll(Tail(seq))

\* seq holds each node of the subtree of n once, and nothing else.
EachOnce(seq, n) ==
    /\ Range(seq) = Subtree(n)
    /\ Len(seq) = Cardinality(Subtree(n))

\* The five nodes a(b(d, e), c), with root a.
IsExampleTree(a, b, c, d, e) ==
    /\ children[a] = <<b, c>>
    /\ children[b] = <<d, e>>
    /\ children[c] = <<>>
    /\ children[d] = <<>>
    /\ children[e] = <<>>

\* C17: an iter_bfs started at n has, when it is exhausted, yielded every
\* node of the subtree of n once, in level order: depth after depth, and
\* within a depth from left to right.
C17_BfsIsLevelOrder ==
    (iter.kind = "bfs" /\ iter.done) =>
        /\ EachOnce(iter.out, iter.start)
        /\ iter.out = LevelOrder(iter.start)

\* C17 witness: the traversal of a(b(d, e), c) has yielded a, b, c, d, e.
C17_Witness ==
    /\ iter.kind = "bfs"
    /\ iter.done
    /\ \E a, b, c, d, e \in alloc :
        /\ IsExampleTree(a, b, c, d, e)
        /\ iter.start = a
        /\ iter.out = <<a, b, c, d, e>>

\* C18: an iter_dfs started at n has, when it is exhausted, yielded every
\* node of the subtree of n once, in the order of a recursive pre-order
\* traversal: a node, then the subtree of each of its children in turn.
C18_DfsIsPreOrder ==
    (iter.kind = "dfs" /\ iter.done) =>
        /\ EachOnce(iter.out, iter.start)
        /\ iter.out = PreOrder(iter.start)

\* C18 witness: the traversal of a(b(d, e), c) has yielded a, b, d, e, c.
C18_Witness ==
    /\ iter.kind = "dfs"
    /\ iter.done
    /\ \E a, b, c, d, e \in alloc :
        /\ IsExampleTree(a, b, c, d, e)
        /\ iter.start = a
        /\ iter.out = <<a, b, d, e, c>>

\* C19: on every tree that build, append_child, insert_child and detach can
\* make, in both variants, an iterator that keeps being asked for its next
\* item comes to return none, and returns none on every call after that.
C19_IteratorsTerminate ==
    /\ (~IterIdle) ~> (iter.done \/ IterIdle)
    /\ [](iter.done => iter.queue = <<>>)

\* The pairs <<source node, its clone>> of the subtrees of a and b in the
\* heap with children ch, matched by position.
RECURSIVE ClonePairs(_, _, _)
ClonePairs(ch, a, b) ==
    {<<a, b>>} \cup
        UNION { ClonePairs(ch, ch[a][i], ch[b][i]) :
                    i \in 1..(IF Len(ch[a]) < Len(ch[b]) THEN Len(ch[a]) ELSE Len(ch[b])) }

\* C20: clone_deep(n) returns a Tree whose nodes have the shape, the order of
\* children and the contents of the subtree of n; its root has no parent,
\* also when n has one; the parent of every other clone is the clone of its
\* source's parent; and no node of it is a node that existed before.
C20_CloneDeepCopiesSubtree ==
    [][ (last'.op = "clone_deep" /\ last'.res = "some") =>
            LET n == last'.recv
                r == last'.arg
            IN /\ r \in trees'
               /\ StructEq(children', content', n, r)
               /\ parent'[r] = NoNode
               /\ \A pr \in ClonePairs(children', n, r) :
                    pr[1] # n =>
                        <<parent[pr[1]], ParentIn(parent', alloc', pr[2])>>
                            \in ClonePairs(children', n, r)
               /\ Reach(children', {r}) \cap alloc = {}
               /\ Reach(children', {r}) \subseteq alloc' ]_vars

\* C20 witness: a node that has a parent and children was cloned.
C20_Witness ==
    /\ last.op = "clone_deep"
    /\ last.res = "some"
    /\ ParentOf(last.recv) # NoNode
    /\ children[last.recv] # <<>>
    /\ children[last.arg] # <<>>

\* Node n is what builder b describes, below parent p: the content of b, the
\* parent p, and one child per child builder of b, in the declared order, each
\* matching its builder below n.
RECURSIVE MatchesIn(_, _, _, _, _, _, _)
MatchesIn(ct, pa, ch, al, b, n, p) ==
    /\ n \in al
    /\ ct[n] = b.content
    /\ ParentIn(pa, al, n) = p
    /\ Len(ch[n]) = Len(b.children)
    /\ \A i \in 1..Len(b.children) : MatchesIn(ct, pa, ch, al, b.children[i], ch[n][i], n)

Matches(b, n, p) == MatchesIn(content, parent, children, alloc, b, n, p)

\* The nodes linked to n by parent references and children lists, followed in
\* either direction.
RECURSIVE LinkedTo(_)
LinkedTo(S) ==
    LET T == S \cup {m \in alloc : \E k \in S :
                        \/ m \in Range(children[k])
                        \/ k \in Range(children[m])
                        \/ parent[m] = k
                        \/ parent[k] = m}
    IN IF T = S THEN S ELSE LinkedTo(T)

\* The operations that change a node's content or the structure.
Mutations == {"set_content", "append_child", "insert_child", "detach", "detach_descendant"}

\* Node n is the same before and after the step.
NodeUnchanged(n) ==
    /\ n \in alloc'
    /\ content'[n] = content[n]
    /\ parent'[n] = parent[n]
    /\ children'[n] = children[n]

\* C21: clone_deep changes no node that existed before it, and the nodes it
\* makes refer only to one another; every later change of content or structure
\* (set content, append, insert, detach) leaves every node unchanged that is
\* not linked to the node the operation was called on or to the tree it was
\* given. So a change made in the clone leaves every node of the source as it
\* was, and a change made in the source leaves every node of the clone as it was.
C21_CloneDeepIsIndependent ==
    [][ /\ (last'.op = "clone_deep" /\ last'.res = "some")
            => /\ \A n \in alloc : NodeUnchanged(n)
               /\ \A m \in alloc' \ alloc :
                    /\ Range(children'[m]) \subseteq alloc' \ alloc
                    /\ parent'[m] \in (alloc' \ alloc) \cup {NoNode}
        /\ last'.op \in Mutations
            => \A n \in alloc :
                  LinkedTo({n}) \cap {last'.recv, last'.arg} = {} => NodeUnchanged(n)
      ]_vars

\* C21 witness: the tree built first is still held and is as it was built,
\* and the last operation changed a node outside it, in a clone that by now
\* differs from the source.
C21_Witness ==
    /\ 1 \in trees
    /\ last.op \in Mutations
    /\ last.res \in {"ok", "some"}
    /\ last.recv \in alloc \ Subtree(1)
    /\ LinkedTo({1}) = Subtree(1)
    /\ \E b \in CloneBuilders : Matches(b, 1, NoNode)
    /\ \E r \in alloc \ Subtree(1) :
          /\ content[r] # content[1]
          /\ children[r] # <<>>

\* C22: clone of any node returns a node that did not exist before, that is
\* not the source (is_same_as is false), with the content of the source, no
\* parent and no children, listed in no node's children; every node that is
\* still alive after the call, the source included, is unchanged.
C22_CloneIsShallow ==
    [][ last'.op = "clone"
        => LET n == last'.recv
               r == last'.arg
           IN /\ r \notin alloc
              /\ r \in alloc'
              /\ ~is_same_as(n, r)
              /\ content'[r] = content[n]
              /\ parent'[r] = NoNode
              /\ children'[r] = <<>>
              /\ \A m \in alloc' : r \notin Range(children'[m])
              /\ \A m \in alloc \cap alloc' :
                    /\ content'[m] = content[m]
                    /\ parent'[m] = parent[m]
                    /\ children'[m] = children[m]
      ]_vars

\* C22 witness: the node just cloned has a parent and has children of its own.
C22_Witness ==
    /\ last.op = "clone"
    /\ last.recv \in alloc
    /\ last.arg \in alloc
    /\ ParentOf(last.recv) # NoNode
    /\ children[last.recv] # <<>>

\* C23: the comparison of two Trees whose nodes are reached finitely returns
\* true exactly when the roots have equal content and equally many children
\* that are pairwise equal, in order, by the same rule recursively.
C23_TreeEqualityIsStructural ==
    (last.op = "eq" /\ ~CyclicUnder(last.recv) /\ ~CyclicUnder(last.arg))
        => (last.res = "true" <=> StructEq(children, content, last.recv, last.arg))

\* C24: build of a builder makes exactly one new Tree, out of new nodes only,
\* one per builder in the specification; its root has no parent and matches the
\* builder: every other node has the node of its enclosing builder as parent,
\* and every children list holds the nodes of the child builders in the
\* declared order. No node that existed before is changed.
C24_BuildMatchesBuilder ==
    [][ \A b \in Builders :
          (BoxBuild(b) \/ RcBuild(b))
            => LET r == last'.arg
               IN /\ last'.op = "build"
                  /\ r \notin alloc
                  /\ trees' = trees \cup {r}
                  /\ MatchesIn(content', parent', children', alloc', b, r, NoNode)
                  /\ alloc' \ alloc = Reach(children', {r})
                  /\ Cardinality(alloc' \ alloc) = BuilderSize(b)
                  /\ \A n \in alloc : NodeUnchanged(n)
      ]_vars

\* C24 witness: the Tree just built has two levels below its root, and the
\* first child of the root has a child of its own while the second has none.
C24_Witness ==
    /\ last.op = "build"
    /\ last.arg \in trees
    /\ Len(children[last.arg]) = 2
    /\ children[children[last.arg][1]] # <<>>
    /\ children[children[last.arg][2]] = <<>>
    /\ ParentOf(children[children[last.arg][1]][1]) = children[last.arg][1]

\* C25: rc Node::detach on a node whose parent reference does not resolve
\* returns none and changes nothing; on a node with a live parent it removes
\* exactly that node from the parent's children, the others keeping their
\* order, clears the node's parent reference and returns a Tree rooted at it.
C25_RcDetachRemovesFromLiveParent ==
    [][ last'.op = "detach"
        => LET h == last'.recv
               p == rc_parent(h)
           IN IF p = NoNode
              THEN /\ last'.res = "none"
                   /\ UNCHANGED <<content, parent, children, alloc, trees>>
              ELSE /\ last'.res = "some"
                   /\ children'[p] = Without(children[p], h)
                   /\ Len(children'[p]) = Len(children[p]) - 1
                   /\ \A m \in alloc \ {p} : children'[m] = children[m]
                   /\ parent' = [parent EXCEPT ![h] = NoNode]
                   /\ trees' = trees \cup {h}
                   /\ UNCHANGED <<content, alloc>>
      ]_vars

\* C27: while the Tree T' returned by the last detach_descendant(X) is held,
\* T'.detach_descendant and T'.borrow_descendant accept a reference to any
\* proper descendant of X and reject a reference to X itself.
C27_DetachedTreeIsAFullTree ==
    [][ ( /\ last'.op \in {"detach_descendant", "borrow_descendant"}
          /\ ~last'.stale
          /\ snap.node \in trees
          /\ last'.recv = snap.node )
        => /\ last'.arg \in ProperDescendants(snap.node) => last'.res = "some"
           /\ last'.arg = snap.node => last'.res = "none"
      ]_vars

\* C27 witness: the Tree returned by the last detach has just lent out a view
\* of one of its proper descendants.
C27_Witness ==
    /\ snap.node \in trees
    /\ last.op = "borrow_descendant"
    /\ last.recv = snap.node
    /\ last.arg \in ProperDescendants(snap.node)
    /\ last.res = "some"
    /\ <<snap.node, last.arg>> \in views

\* The operations that move a whole subtree.
Moves == {"append_child", "insert_child", "detach", "detach_descendant"}

\* C28: a successful append_child, insert_child or detach changes the children
\* list of exactly one node, the parent the subtree is put under or taken from,
\* and the parent reference of exactly one node, the root of the moved subtree;
\* the other children of that parent keep their relative order, and no node's
\* content changes.
C28_MoveChangesOneParentOneChild ==
    [][ (last'.op \in Moves /\ last'.res \in {"ok", "some"} /\ ~last'.stale)
        => LET joins == last'.op \in {"append_child", "insert_child"}
               moved == IF joins \/ last'.op = "detach_descendant"
                        THEN last'.arg ELSE last'.recv
               target == IF joins THEN last'.recv ELSE parent[moved]
           IN /\ {n \in Nodes : children'[n] # children[n]} = {target}
              /\ {n \in Nodes : parent'[n] # parent[n]} = {moved}
              /\ Without(children'[target], moved) = Without(children[target], moved)
              /\ content' = content
      ]_vars

\* C28 witness: insert_child has just put a subtree between two children.
C28_Witness ==
    /\ last.op = "insert_child"
    /\ last.res = "ok"
    /\ last.idx = 1
    /\ Len(children[last.recv]) = 3
    /\ children[last.recv][2] = last.arg
    /\ parent[last.arg] = last.recv

\* The nodes reached from the set S by following the parent references pa
\* upwards, S included.
RECURSIVE UpIn(_, _, _)
UpIn(pa, al, S) ==
    LET T == S \cup ({ParentIn(pa, al, m) : m \in S} \ {NoNode})
    IN IF T = S THEN S ELSE UpIn(pa, al, T)

\* The node set of the tree that holds node n: everything below n or below one
\* of its ancestors.
TreeIn(pa, al, ch, n) == Reach(ch, UpIn(pa, al, {n}))

\* C29: moving a subtree conserves nodes. After a successful detach the tree
\* the node was taken from and the returned Tree have disjoint node sets whose
\* union is the node set of the tree before the call; after a successful
\* append_child or insert_child the node set of the receiving tree is its old
\* node set together with the nodes of the Tree put in. No node is freed, and
\* no node is listed twice in children lists.
C29_MovesConserveNodes ==
    [][ (last'.op \in Moves /\ last'.res \in {"ok", "some"} /\ ~last'.stale)
        => /\ alloc' = alloc
           /\ \A n \in alloc' : \A m, k \in alloc' :
                 /\ Occurrences(children'[m], n) <= 1
                 /\ (n \in Range(children'[m]) /\ n \in Range(children'[k])) => m = k
           /\ IF last'.op \in {"append_child", "insert_child"}
              THEN TreeIn(parent', alloc', children', last'.recv)
                     = TreeIn(parent, alloc, children, last'.recv) \cup Subtree(last'.arg)
              ELSE LET moved == IF last'.op = "detach_descendant"
                                THEN last'.arg ELSE last'.recv
                       from == parent[moved]
                       remaining == TreeIn(parent', alloc', children', from)
                       returned == Reach(children', {moved})
                   IN /\ remaining \cap returned = {}
                      /\ remaining \cup returned = TreeIn(parent, alloc, children, from)
      ]_vars

\* C30: the descendant check of Tree t for a live node d, as borrow_descendant
\* and detach_descendant apply it, accepts d exactly when the root of t is a
\* proper ancestor of d by the parent references at the time of the call: it
\* rejects the root itself, accepts a node with the root on its parent chain,
\* and rejects a node whose parent chain ends at another parentless node.
C30_DescendantCheckIsProperAncestry ==
    [][ (last'.op \in {"borrow_descendant", "detach_descendant"} /\ ~last'.stale)
        => LET t == last'.recv
               d == last'.arg
           IN /\ last'.res \in {"some", "none"}
              /\ last'.res = "some" <=> t \in Ancestors(d)
              /\ d = t => last'.res = "none"
              /\ (\E r \in UpIn(parent, alloc, {d}) \ {t} : parent[r] = NoNode)
                    => last'.res = "none"
      ]_vars

\* C30 witness: a node that was below Tree t when its ancestor X was detached
\* has just been rejected by t, its parent chain now ending at X, while a
\* reference to it is accepted by the Tree rooted at X.
C30_Witness ==
    /\ last.op = "borrow_descendant"
    /\ last.res = "none"
    /\ last.recv \in trees \ {snap.node}
    /\ snap.node \in trees
    /\ snap.from \in Subtree(last.recv)
    /\ last.arg \in ProperDescendants(snap.node)
    /\ last.arg \in Reach(snap.children, Range(snap.children[snap.node]))
    /\ is_descendant(snap.node, last.arg)

\* C26: with threads sharing handles, every call a thread has started
\* returns: a thread that is inside a call is eventually in no call, given
\* that callers drop the guards they hold.
C26_EveryStartedCallReturns ==
    \A t \in Threads : (thread[t].pc # "idle") ~> (thread[t].pc = "idle")

\* C31: in every state reached by build, append_child, insert_child and detach
\* calls of one thread, the last detach or detach_descendant that passed its
\* check (descendant check; live parent in the rc variant) found the node in
\* its parent's children: no detach ends in the "Node is not found in its
\* parent" panic.
C31_DetachAlwaysFindsTheNode ==
    last.op \in {"detach", "detach_descendant"} /\ ~last.stale => last.res # "panic"

\* C32: creating, advancing and dropping an iter_bfs / iter_dfs iterator, up
\* to any point of the traversal, leaves the tree as it is: every node keeps
\* its parent, its children sequence and its content, and no node is created
\* or released.
C32_IteratorsAreReadOnly ==
    [][ iter' # iter
        => UNCHANGED <<content, parent, children, alloc, next, trees, handles, views>> ]_vars

\* C32 witness: a depth-first traversal has yielded a node and then its first
\* child and has more to yield; the yielded node still lists that child first,
\* and the child still names it as parent.
C32_Witness ==
    /\ iter.kind = "dfs"
    /\ ~iter.done
    /\ Len(iter.out) = 2
    /\ iter.queue # <<>>
    /\ children[iter.out[1]] # <<>>
    /\ children[iter.out[1]][1] = iter.out[2]
    /\ parent[iter.out[2]] = iter.out[1]
    /\ children[iter.out[2]] # <<>>

\* The thread takes a step of the call it is in: it acquires the lock Wants
\* names and runs the statement under it.
Acquires(t) == thread[t].pc # "idle" /\ thread'[t] # thread[t]

\* The thread holds a guard on node n.
Holds(t, n) == lock[n].w = t \/ lock[n].r[t] > 0

\* C33: in the shared-ownership variant, no call acquires a lock on a node on
\* which the same call already holds a guard, whatever nodes its arguments
\* denote (a call starts with no guard held by its thread, so every guard the
\* thread holds inside the call was taken by the call).
C33_NoNestedLockOnOneNode ==
    [][ \A t \in Threads : Acquires(t) => ~Holds(t, Wants(t)[1]) ]_vars

\* The step writes a field of node n.
Writes(n) ==
    content'[n] # content[n] \/ parent'[n] # parent[n] \/ children'[n] # children[n]

\* The step is thread t writing under a write guard on n: no call takes a
\* step and t holds the guard content_mut() handed to it, or t runs a statement
\* of its call that takes the write guard.
WritesUnderLock(t, n) ==
    \/ thread' = thread /\ thread[t] = Idle /\ lock[n].w = t
    \/ Acquires(t) /\ Wants(t) = <<n, "w">>

\* C34: in the shared-ownership variant every write to a node's content,
\* parent reference or children sequence is made by a thread that holds the
\* write lock of that node, no other thread holding a guard on it; and each
\* write-locking statement of append_child / insert_child / detach locks the
\* parent or the moved child of the call and writes to no other node.
C34_WritesHoldTheWriteLock ==
    [][ /\ \A n \in Nodes :
              Writes(n) => \E t \in Threads :
                              /\ WritesUnderLock(t, n)
                              /\ \A u \in Threads \ {t} : ~Holds(u, n)
        /\ \A t \in Threads :
              (Acquires(t) /\ Wants(t)[2] = "w" /\ thread[t].pc # "content_mut")
              => /\ Wants(t)[1] \in {thread[t].self, thread[t].arg}
                 /\ \A n \in Nodes \ {Wants(t)[1]} : ~Writes(n)
      ]_vars

\* C34 witness: a thread holds the write guard of node 2 and has changed its
\* content through it, while leaf 3 has been appended under node 1 by the
\* two write-locked statements of append_child.
C34_Witness ==
    /\ \E t \in Threads : lock[2].w = t /\ thread[t] = Idle
    /\ content[2] = "x"
    /\ parent[3] = 1
    /\ children[1] = <<2, 3>>
    /\ \A t \in Threads : thread[t] = Idle

\* C35: in the thread-shared variant, the removal statement of Node::detach,
\* run after the lookup of the node's index in its parent's children, removes
\* exactly the node detach was called on and does not panic, whatever calls
\* of other threads (append_child, insert_child, detach of a sibling or of the
\* same node) ran between the lookup and the removal.
C35_DetachRemovesItsOwnNode ==
    [][ \A t \in Threads :
          (thread[t].pc = "detach_remove" /\ Acquires(t))
          => LET p == thread[t].arg
                 self == thread[t].self
             IN /\ thread'[t].pc = "detach_clear"
                /\ thread'[t].arg = self
                /\ children'[p] = Without(children[p], self)
                /\ Len(children'[p]) = Len(children[p]) - 1
      ]_vars

\* C36: in the thread-shared variant, in every state in which no thread holds
\* a lock, the structure the threads observe is consistent: a node whose
\* parent reference resolves to p is in p's children, and every node in p's
\* children has a parent reference that resolves to p. The state between the
\* two updates of append_child, insert_child and detach is never such a state.
C36_ConsistentWheneverUnlocked ==
    (\A n \in Nodes : lock[n] = Unlocked)
    => \A n \in alloc :
          /\ rc_parent(n) # NoNode => n \in Range(children[rc_parent(n)])
          /\ \A c \in Range(children[n]) : rc_parent(c) = n

\* C37: the comparison of two nodes, and of two Trees through their roots,
\* returns true exactly when the contents of the two nodes are equal, whatever
\* their children sequences and their parents are.
C37_EqualityIsByContentOnly ==
    [][ last'.op \in {"eq", "node_eq"}
        => (last'.res = "true" <=> content[last'.recv] = content[last'.arg]) ]_vars

\* C37 witness: a node with children and a parent has just compared equal to
\* a node without children and with another parent or none.
C37_Witness ==
    /\ last.op = "node_eq"
    /\ last.res = "true"
    /\ last.recv # last.arg
    /\ children[last.recv] # <<>>
    /\ children[last.arg] = <<>>
    /\ parent[last.recv] # NoNode
    /\ parent[last.arg] # parent[last.recv]

\* The handle h outlived its parent: its parent reference names a node record
\* that has been dropped.
Orphaned(h) == h \in handles /\ parent[h] # NoNode /\ parent[h] \notin alloc

\* C38: in the reference-counted variant, on a handle whose parent node has
\* been dropped, parent(), next_sibling(), prev_sibling() and detach() return
\* none and change nothing; and the node of every handle the caller holds,
\* with its whole subtree, stays allocated with its content.
C38_HandleOutlivesItsTree ==
    [][ /\ (last'.op \in {"parent", "next_sibling", "prev_sibling", "detach"}
            /\ Orphaned(last'.recv))
           => /\ last'.res = "none"
              /\ UNCHANGED <<content, parent, children, alloc, trees, handles>>
        /\ \A h \in handles' :
              \A n \in Reach(children', {h}) : n \in alloc' /\ content'[n] # NoContent
      ]_vars

\* C38 witness: detach has just returned none on a handle to a node whose
\* parent was dropped with its Tree; the node still has its content and its
\* child.
C38_Witness ==
    /\ last.op = "detach"
    /\ last.res = "none"
    /\ Orphaned(last.recv)
    /\ content[last.recv] = "y"
    /\ children[last.recv] # <<>>
    /\ \A c \in Range(children[last.recv]) : c \in alloc /\ parent[c] = last.recv

\* The 0-based index the node of the last detach had in its parent's children.
DetachedAt == position(snap.children[snap.from], snap.node)

\* The heap is as the last detach left it: the detached node is the root of a
\* Tree the caller holds, it is missing from the children of the node it was
\* taken from, and nothing else differs from the heap before the detach.
AsDetachLeftIt ==
    /\ snap.node \in trees
    /\ snap.from \in alloc
    /\ parent[snap.node] = NoNode
    /\ content = snap.content
    /\ children = [snap.children EXCEPT ![snap.from] = RemoveAt(@, DetachedAt)]

\* C39: detaching the child at index i of node p and then inserting the
\* returned Tree into p at index i restores the tree: the children lists and
\* the contents of all nodes are those before the detach, the node has p as
\* parent again, no other parent reference changes, and the node records are
\* the same ones.
C39_DetachThenInsertRestores ==
    [][ ( /\ AsDetachLeftIt
          /\ last'.op = "insert_child"
          /\ last'.res = "ok"
          /\ last'.recv = snap.from
          /\ last'.arg = snap.node
          /\ last'.idx = DetachedAt )
        => /\ children' = snap.children
           /\ content' = snap.content
           /\ parent' = [parent EXCEPT ![snap.node] = snap.from]
           /\ alloc' = alloc
           /\ trees' = trees \ {snap.node}
      ]_vars

\* C39 witness: the node detached last has just been inserted back at the
\* index it had, behind a sibling, and the children lists and contents are
\* those before the detach.
C39_Witness ==
    /\ last.op = "insert_child"
    /\ last.res = "ok"
    /\ last.recv = snap.from
    /\ last.arg = snap.node
    /\ last.idx = DetachedAt
    /\ DetachedAt = 1
    /\ children = snap.children
    /\ content = snap.content
    /\ parent[snap.node] = snap.from
    /\ snap.node \notin trees

====
